---- MODULE Spec2Model ----
(***************************************************************************)
(* The bitemporal indexing store of ponder (PostgresIndexingStore).  One  *)
(* user table "<table>_versioned" is modelled as a set of version rows;   *)
(* every store method is an operator from a table to the set of outcomes  *)
(* the database can produce for it, built from the SQL statements the     *)
(* method issues.  Text values that the SQL compares with < and >= (the   *)
(* encoded checkpoints and the "latest" sentinel) are sequences of        *)
(* character codes compared lexicographically.                            *)
(*                                                                         *)
(* The request queue (createRequestQueue) is modelled next to it: the     *)
(* variables of its closure in requestQueue, and in runtime the clock,    *)
(* the timers it has armed and the calls it has made to the transport.    *)
(***************************************************************************)
EXTENDS Integers, Sequences, FiniteSets, TLC

VARIABLES store, idType, cur, last, logging, log, late, requestQueue, runtime,
          rpc, pg, before, tx

vars ==
    <<store, idType, cur, last, logging, log, late, requestQueue, runtime,
      rpc, pg, before, tx>>

(***************************************************************************)
(* Bounds of the model.                                                    *)
(***************************************************************************)
\* The first checkpoint the indexer passes; 9 so that the encodings cross a
\* decimal carry ("09" < "10" < "11"), where padding decides the order.
FirstCheckpoint == 9
\* Number of distinct checkpoints.
NumCheckpoints == 3
\* Digits of an encoded checkpoint (58 in the deployed encoding).
CheckpointWidth == 2
\* Longest operation log kept by the logged specification.
MaxLog == 2

\* store.ts:29, scaled down: rows per insert statement of createMany.
MAX_BATCH_SIZE == 2

\* Most request() calls made on a request queue.
MaxRequests == 4
\* Most request() calls made where progress is checked.
MaxLiveRequests == 2
\* Most request() calls of a burst, made while the clock stands still.
MaxBurst == 12
\* Most steps of the clock, each of half an interval.
MaxTicks == 3
\* Date.now() when the queue is created, in ms.
StartTime == 1000
\* Most calls of the request function of the cached transport.
MaxRpcCalls == 2
\* viem's maxUint256, scaled down to the largest integer of the model.
maxUint256 == 2147483647

\* The store instances that share one database, each with its namespace.
NumStores == 2
\* Most calls of reload, publish, the writes and the public reads together.
MaxNamespaceCalls == 4

\* The values of maxRequestsPerSecond: one below 20, with one request per
\* interval of 1000 / R ms, and one above, with batches every 50 ms.
RequestRates == {1, 40}

Checkpoints == FirstCheckpoint .. (FirstCheckpoint + NumCheckpoints - 1)
Ids == {"a", "A"}
Values == {0, 1}
IdTypes == {"string", "bytes"}

(***************************************************************************)
(* Text: strings as sequences of character codes, SQL text comparison.     *)
(***************************************************************************)
RECURSIVE Pow10(_)
Pow10(k) == IF k = 0 THEN 1 ELSE 10 * Pow10(k - 1)

\* "latest"
latest == <<108, 97, 116, 101, 115, 116>>

\* Fixed-width, zero-padded decimal text of a checkpoint.
encodeCheckpoint(c) ==
    [k \in 1 .. CheckpointWidth |->
        48 + ((c \div Pow10(CheckpointWidth - k)) % 10)]

\* a < b in the lexicographic order of text, decided at the first position
\* k where the two differ or one of them ends.
RECURSIVE TextLessFrom(_, _, _)
TextLessFrom(a, b, k) ==
    IF k > Len(b) THEN FALSE
    ELSE IF k > Len(a) THEN TRUE
    ELSE IF a[k] = b[k] THEN TextLessFrom(a, b, k + 1)
    ELSE a[k] < b[k]

TextLess(a, b) == TextLessFrom(a, b, 1)

TextLeq(a, b) == a = b \/ TextLess(a, b)

\* Lower-casing over the id alphabet of the model.
toLowerCase(s) == IF s = "A" THEN "a" ELSE s

(***************************************************************************)
(* Rows, patches and SQL statements on one table.                          *)
(***************************************************************************)
\* A JavaScript object with the optional user column "v".
EmptyObject == [k \in {} |-> 0]
Objects == {EmptyObject} \cup {[k \in {"v"} |-> x] : x \in Values}

\* update data: an object, or a function of the current row.
UpdateData ==
    {[kind |-> "object", obj |-> o] : o \in Objects}
        \cup {[kind |-> "function", obj |-> EmptyObject]}

\* The user function used by the model: flips column v of the current row.
ApplyFn(current) == [k \in {"v"} |-> 1 - current.v]

Version(id, v, from, to) ==
    [id |-> id, v |-> v, effectiveFromCheckpoint |-> from,
     effectiveToCheckpoint |-> to]

\* PRIMARY KEY (id, effectiveToCheckpoint), text equality.
SamePk(r1, r2) ==
    /\ r1.id = r2.id
    /\ r1.effectiveToCheckpoint = r2.effectiveToCheckpoint

idColumnComparator(type) == IF type = "bytes" THEN "ilike" ELSE "="

\* where("id", comparator, formattedId)
IdWhere(r, id) ==
    IF idColumnComparator(idType) = "ilike"
    THEN toLowerCase(r.id) = toLowerCase(id)
    ELSE r.id = id

\* Outcome of a store method.
Ok(tbl, rows, flag) ==
    [ok |-> TRUE, err |-> "", tbl |-> tbl, rows |-> rows, flag |-> flag]
Fail(tbl, err) ==
    [ok |-> FALSE, err |-> err, tbl |-> tbl, rows |-> <<>>, flag |-> FALSE]

deserializeRow(row) == [id |-> row.id, v |-> row.v]

\* The value written to or compared with a text column: a string, and so a
\* bytes id, is passed as it is given, its letter case kept.
formatColumnValue(value) == value


\* formatRow({ id, ...obj }): the columns an object sets.
SetColumns(r, id, obj) ==
    [r EXCEPT !.id = formatColumnValue(id),
              !.v = IF "v" \in DOMAIN obj THEN obj.v ELSE r.v]

\* UPDATE ... SET on the rows matched, changed the rows they become: the
\* primary key rejects the statement when a changed row ends with the key
\* of another row.
PkOk(tbl, matched, changed) ==
    /\ Cardinality(changed) = Cardinality(matched)
    /\ \A r1 \in changed : \A r2 \in (tbl \ matched) \cup changed :
            r1 # r2 => ~SamePk(r1, r2)

Updated(tbl, matched, changed) == (tbl \ matched) \cup changed

\* Mutant: the table is created without its primary key.
InsertErrorWithoutPrimaryKey(tbl, id, obj, to) ==
    IF "v" \notin DOMAIN obj THEN "NotNullViolation" ELSE ""

\* INSERT of one row: NOT NULL on column v, then the primary key.
InsertError(tbl, id, obj, to) ==
    IF "v" \notin DOMAIN obj THEN "NotNullViolation"
    ELSE IF \E r \in tbl : r.id = id /\ r.effectiveToCheckpoint = to
         THEN "UniqueViolation"
         ELSE ""

(***************************************************************************)
(* Read: internalFindUnique.                                               *)
(***************************************************************************)
AtLatest == [kind |-> "latest", c |-> 0]
At(c) == [kind |-> "checkpoint", c |-> c]

\* Mutant: a version is still returned at its effectiveToCheckpoint.
findUniqueToInclusive(tbl, id, checkpoint) ==
    LET encodedCheckpoint == encodeCheckpoint(checkpoint.c)
        found ==
            {r \in tbl :
                /\ IdWhere(r, id)
                /\ IF checkpoint.kind = "latest"
                   THEN r.effectiveToCheckpoint = latest
                   ELSE /\ TextLeq(r.effectiveFromCheckpoint, encodedCheckpoint)
                        /\ TextLeq(encodedCheckpoint, r.effectiveToCheckpoint)}
    IN  IF found = {} THEN {<<>>}
        ELSE {<<deserializeRow(r)>> : r \in found}

findUnique(tbl, id, checkpoint) ==
    LET encodedCheckpoint == encodeCheckpoint(checkpoint.c)
        found ==
            {r \in tbl :
                /\ IdWhere(r, id)
                /\ IF checkpoint.kind = "latest"
                   THEN r.effectiveToCheckpoint = latest
                   ELSE /\ TextLeq(r.effectiveFromCheckpoint, encodedCheckpoint)
                        /\ \/ TextLess(encodedCheckpoint, r.effectiveToCheckpoint)
                           \/ r.effectiveToCheckpoint = latest}
    IN  IF found = {} THEN {<<>>}
        ELSE {<<deserializeRow(r)>> : r \in found}

(***************************************************************************)
(* Writes.                                                                 *)
(***************************************************************************)
create(tbl, c, id, data) ==
    LET encodedCheckpoint == encodeCheckpoint(c)
        err == InsertError(tbl, formatColumnValue(id), data, latest)
        row == Version(formatColumnValue(id), data.v, encodedCheckpoint,
                       latest)
    IN  IF err # "" THEN {Fail(tbl, err)}
        ELSE {Ok(tbl \cup {row}, <<deserializeRow(row)>>, TRUE)}

\* Mutant: the latest version is closed at its own effectiveFromCheckpoint
\* instead of the checkpoint of the update.
updateLatestClosingAtFrom(tbl, encodedCheckpoint, id, data, latestRow) ==
    LET obj == IF data.kind = "function"
               THEN ApplyFn(deserializeRow(latestRow))
               ELSE data.obj
    IN  IF TextLess(encodedCheckpoint, latestRow.effectiveFromCheckpoint)
        THEN {Fail(tbl, "Cannot update a record in the past")}
        ELSE IF latestRow.effectiveFromCheckpoint = encodedCheckpoint
        THEN \* update in place
            LET matched == {r \in tbl :
                              /\ IdWhere(r, id)
                              /\ r.effectiveFromCheckpoint = encodedCheckpoint}
                changed == {SetColumns(r, id, obj) : r \in matched}
            IN  IF ~PkOk(tbl, matched, changed)
                THEN {Fail(tbl, "UniqueViolation")}
                ELSE {Ok(Updated(tbl, matched, changed),
                         <<deserializeRow(m)>>, TRUE) : m \in changed}
        ELSE \* close the latest version and insert a new one
            LET matched == {r \in tbl :
                              /\ IdWhere(r, id)
                              /\ r.effectiveToCheckpoint = latest}
                changed == {[r EXCEPT !.effectiveToCheckpoint = latestRow.effectiveFromCheckpoint] :
                                r \in matched}
                closed == Updated(tbl, matched, changed)
                merged == SetColumns(latestRow, id, obj)
                row == Version(merged.id, merged.v, encodedCheckpoint, latest)
            IN  IF ~PkOk(tbl, matched, changed)
                THEN {Fail(tbl, "UniqueViolation")}
                ELSE IF \E r \in closed : SamePk(r, row)
                THEN {Fail(tbl, "UniqueViolation")}
                ELSE {Ok(closed \cup {row}, <<deserializeRow(row)>>, TRUE)}

\* Mutant: no in-place case, every update closes the latest version and
\* inserts a new one.
updateLatestWithoutSquash(tbl, encodedCheckpoint, id, data, latestRow) ==
    LET obj == IF data.kind = "function"
               THEN ApplyFn(deserializeRow(latestRow))
               ELSE data.obj
        matched == {r \in tbl :
                      /\ IdWhere(r, id)
                      /\ r.effectiveToCheckpoint = latest}
        changed == {[r EXCEPT !.effectiveToCheckpoint = encodedCheckpoint] :
                        r \in matched}
        closed == Updated(tbl, matched, changed)
        merged == SetColumns(latestRow, id, obj)
        row == Version(merged.id, merged.v, encodedCheckpoint, latest)
    IN  IF TextLess(encodedCheckpoint, latestRow.effectiveFromCheckpoint)
        THEN {Fail(tbl, "Cannot update a record in the past")}
        ELSE IF ~PkOk(tbl, matched, changed)
        THEN {Fail(tbl, "UniqueViolation")}
        ELSE IF \E r \in closed : SamePk(r, row)
        THEN {Fail(tbl, "UniqueViolation")}
        ELSE {Ok(closed \cup {row}, <<deserializeRow(row)>>, TRUE)}

\* Mutant: the checkpoint of the update is not compared with the
\* effectiveFromCheckpoint of the latest version.
updateLatestWithoutPastCheck(tbl, encodedCheckpoint, id, data, latestRow) ==
    LET obj == IF data.kind = "function"
               THEN ApplyFn(deserializeRow(latestRow))
               ELSE data.obj
    IN  IF latestRow.effectiveFromCheckpoint = encodedCheckpoint
        THEN \* update in place
            LET matched == {r \in tbl :
                              /\ IdWhere(r, id)
                              /\ r.effectiveFromCheckpoint = encodedCheckpoint}
                changed == {SetColumns(r, id, obj) : r \in matched}
            IN  IF ~PkOk(tbl, matched, changed)
                THEN {Fail(tbl, "UniqueViolation")}
                ELSE {Ok(Updated(tbl, matched, changed),
                         <<deserializeRow(m)>>, TRUE) : m \in changed}
        ELSE \* close the latest version and insert a new one
            LET matched == {r \in tbl :
                              /\ IdWhere(r, id)
                              /\ r.effectiveToCheckpoint = latest}
                changed == {[r EXCEPT !.effectiveToCheckpoint = encodedCheckpoint] :
                                r \in matched}
                closed == Updated(tbl, matched, changed)
                merged == SetColumns(latestRow, id, obj)
                row == Version(merged.id, merged.v, encodedCheckpoint, latest)
            IN  IF ~PkOk(tbl, matched, changed)
                THEN {Fail(tbl, "UniqueViolation")}
                ELSE IF \E r \in closed : SamePk(r, row)
                THEN {Fail(tbl, "UniqueViolation")}
                ELSE {Ok(closed \cup {row}, <<deserializeRow(row)>>, TRUE)}

\* The body of update after the latest version is loaded (the same
\* statements close upsert).
updateLatest(tbl, encodedCheckpoint, id, data, latestRow) ==
    LET obj == IF data.kind = "function"
               THEN ApplyFn(deserializeRow(latestRow))
               ELSE data.obj
    IN  IF TextLess(encodedCheckpoint, latestRow.effectiveFromCheckpoint)
        THEN {Fail(tbl, "Cannot update a record in the past")}
        ELSE IF latestRow.effectiveFromCheckpoint = encodedCheckpoint
        THEN \* update in place
            LET matched == {r \in tbl :
                              /\ IdWhere(r, id)
                              /\ r.effectiveFromCheckpoint = encodedCheckpoint}
                changed == {SetColumns(r, id, obj) : r \in matched}
            IN  IF ~PkOk(tbl, matched, changed)
                THEN {Fail(tbl, "UniqueViolation")}
                ELSE {Ok(Updated(tbl, matched, changed),
                         <<deserializeRow(m)>>, TRUE) : m \in changed}
        ELSE \* close the latest version and insert a new one
            LET matched == {r \in tbl :
                              /\ IdWhere(r, id)
                              /\ r.effectiveToCheckpoint = latest}
                changed == {[r EXCEPT !.effectiveToCheckpoint = encodedCheckpoint] :
                                r \in matched}
                closed == Updated(tbl, matched, changed)
                merged == SetColumns(latestRow, id, obj)
                row == Version(merged.id, merged.v, encodedCheckpoint, latest)
            IN  IF ~PkOk(tbl, matched, changed)
                THEN {Fail(tbl, "UniqueViolation")}
                ELSE IF \E r \in closed : SamePk(r, row)
                THEN {Fail(tbl, "UniqueViolation")}
                ELSE {Ok(closed \cup {row}, <<deserializeRow(row)>>, TRUE)}

LatestRows(tbl, id) ==
    {r \in tbl : IdWhere(r, id) /\ r.effectiveToCheckpoint = latest}

\* Mutant: an id without a current version is not an error.
updateWithoutNotFound(tbl, c, id, data) ==
    LET encodedCheckpoint == encodeCheckpoint(c)
        latestRows == LatestRows(tbl, id)
    IN  IF latestRows = {} THEN {Ok(tbl, <<>>, FALSE)}
        ELSE UNION {updateLatest(tbl, encodedCheckpoint, id, data, latestRow) :
                        latestRow \in latestRows}

update(tbl, c, id, data) ==
    LET encodedCheckpoint == encodeCheckpoint(c)
        latestRows == LatestRows(tbl, id)
    IN  IF latestRows = {} THEN {Fail(tbl, "NoResultError")}
        ELSE UNION {updateLatest(tbl, encodedCheckpoint, id, data, latestRow) :
                        latestRow \in latestRows}

\* Mutant: an id without a current version is refused as update refuses it.
upsertWithoutCreate(tbl, c, id, createData, updateData) ==
    LET encodedCheckpoint == encodeCheckpoint(c)
        latestRows == LatestRows(tbl, id)
    IN  IF latestRows = {} THEN {Fail(tbl, "NoResultError")}
        ELSE UNION {updateLatest(tbl, encodedCheckpoint, id, updateData, latestRow) :
                        latestRow \in latestRows}

upsert(tbl, c, id, createData, updateData) ==
    LET encodedCheckpoint == encodeCheckpoint(c)
        latestRows == LatestRows(tbl, id)
    IN  IF latestRows = {} THEN create(tbl, c, id, createData)
        ELSE UNION {updateLatest(tbl, encodedCheckpoint, id, updateData, latestRow) :
                        latestRow \in latestRows}

\* Mutant: no shortcut for a version created at the same checkpoint, the
\* current version is always closed.
deleteWithoutShortcut(tbl, c, id) ==
    LET encodedCheckpoint == encodeCheckpoint(c)
        latestRows == LatestRows(tbl, id)
        changed == {[r EXCEPT !.effectiveToCheckpoint = encodedCheckpoint] :
                        r \in latestRows}
    IN  IF ~PkOk(tbl, latestRows, changed)
        THEN {Fail(tbl, "UniqueViolation")}
        ELSE {Ok(Updated(tbl, latestRows, changed), <<>>, latestRows # {})}

\* Mutant: the result of the UPDATE that closes the current version is
\* not counted.
deleteIgnoringUpdateResult(tbl, c, id) ==
    LET encodedCheckpoint == encodeCheckpoint(c)
        latestRows == LatestRows(tbl, id)
        deleted == {r \in latestRows :
                        r.effectiveFromCheckpoint = encodedCheckpoint}
        changed == {[r EXCEPT !.effectiveToCheckpoint = encodedCheckpoint] :
                        r \in latestRows}
    IN  IF deleted # {} THEN {Ok(tbl \ deleted, <<>>, TRUE)}
        ELSE IF ~PkOk(tbl, latestRows, changed)
        THEN {Fail(tbl, "UniqueViolation")}
        ELSE {Ok(Updated(tbl, latestRows, changed), <<>>, FALSE)}

delete(tbl, c, id) ==
    LET encodedCheckpoint == encodeCheckpoint(c)
        latestRows == LatestRows(tbl, id)
        deleted == {r \in latestRows :
                        r.effectiveFromCheckpoint = encodedCheckpoint}
        changed == {[r EXCEPT !.effectiveToCheckpoint = encodedCheckpoint] :
                        r \in latestRows}
    IN  IF deleted # {} THEN {Ok(tbl \ deleted, <<>>, TRUE)}
        ELSE IF ~PkOk(tbl, latestRows, changed)
        THEN {Fail(tbl, "UniqueViolation")}
        ELSE {Ok(Updated(tbl, latestRows, changed), <<>>, latestRows # {})}

\* Mutant: only the current versions written since the checkpoint are
\* deleted.
revertCurrentVersionsOnly(tbl, checkpoint) ==
    LET encodedCheckpoint == encodeCheckpoint(checkpoint)
        kept == {r \in tbl :
                    ~(/\ TextLeq(encodedCheckpoint, r.effectiveFromCheckpoint)
                      /\ r.effectiveToCheckpoint = latest)}
        matched == {r \in kept :
                        TextLeq(encodedCheckpoint, r.effectiveToCheckpoint)}
        changed == {[r EXCEPT !.effectiveToCheckpoint = latest] : r \in matched}
    IN  IF ~PkOk(kept, matched, changed) THEN {Fail(tbl, "UniqueViolation")}
        ELSE {Ok(Updated(kept, matched, changed), <<>>, TRUE)}

revert(tbl, checkpoint) ==
    LET encodedCheckpoint == encodeCheckpoint(checkpoint)
        kept == {r \in tbl :
                    ~TextLeq(encodedCheckpoint, r.effectiveFromCheckpoint)}
        matched == {r \in kept :
                        TextLeq(encodedCheckpoint, r.effectiveToCheckpoint)}
        changed == {[r EXCEPT !.effectiveToCheckpoint = latest] : r \in matched}
    IN  IF ~PkOk(kept, matched, changed) THEN {Fail(tbl, "UniqueViolation")}
        ELSE {Ok(Updated(kept, matched, changed), <<>>, TRUE)}

(***************************************************************************)
(* createMany: one INSERT statement per chunk, all started together.       *)
(***************************************************************************)
NumChunks(data) == (Len(data) + MAX_BATCH_SIZE - 1) \div MAX_BATCH_SIZE

\* createRows.slice(i, i + MAX_BATCH_SIZE) of the k-th chunk.
Chunk(data, k) ==
    SubSeq(data, (k - 1) * MAX_BATCH_SIZE + 1,
           IF k * MAX_BATCH_SIZE < Len(data) THEN k * MAX_BATCH_SIZE
           ELSE Len(data))

\* One multi-row INSERT: every row or none.
ChunkError(tbl, chunk) ==
    IF \E j \in 1 .. Len(chunk) : "v" \notin DOMAIN chunk[j].obj
    THEN "NotNullViolation"
    ELSE IF \/ \E j \in 1 .. Len(chunk) : \E r \in tbl :
                    r.id = chunk[j].id /\ r.effectiveToCheckpoint = latest
            \/ \E j \in 1 .. Len(chunk) : \E k \in 1 .. Len(chunk) :
                    j # k /\ chunk[j].id = chunk[k].id
         THEN "UniqueViolation"
         ELSE ""

ChunkRows(chunk, encodedCheckpoint) ==
    {Version(chunk[j].id, chunk[j].obj.v, encodedCheckpoint, latest) :
        j \in 1 .. Len(chunk)}

\* The tables the chunk statements can leave, run in any order, with the
\* set of chunks that failed.
RECURSIVE InsertChunks(_, _, _, _, _)
InsertChunks(tbl, data, encodedCheckpoint, todo, failed) ==
    IF todo = {} THEN {[tbl |-> tbl, failed |-> failed]}
    ELSE UNION {
            IF ChunkError(tbl, Chunk(data, k)) # ""
            THEN InsertChunks(tbl, data, encodedCheckpoint,
                              todo \ {k}, failed \cup {k})
            ELSE InsertChunks(
                    tbl \cup ChunkRows(Chunk(data, k), encodedCheckpoint),
                    data, encodedCheckpoint, todo \ {k}, failed)
            : k \in todo}

createMany(tbl, c, data) ==
    LET encodedCheckpoint == encodeCheckpoint(c)
        ends == InsertChunks(tbl, data, encodedCheckpoint,
                             1 .. NumChunks(data), {})
    IN  {IF e.failed = {}
         THEN Ok(e.tbl, [j \in 1 .. Len(data) |->
                            [id |-> data[j].id, v |-> data[j].obj.v]], TRUE)
         ELSE Fail(e.tbl, "InsertError") : e \in ends}

(***************************************************************************)
(* updateMany: the single-row rule for every matching current version,     *)
(* the callbacks of Promise.all sharing one transaction.                   *)
(***************************************************************************)
\* buildSqlWhereConditions for an equality filter on column v.
WhereMatches(where, r) == "v" \in DOMAIN where => r.v = where.v

\* The orders in which the database can return the rows S.
RECURSIVE Orders(_)
Orders(S) ==
    IF S = {} THEN {<<>>}
    ELSE UNION {{<<r>> \o o : o \in Orders(S \ {r})} : r \in S}

ManyObj(data, latestRow) ==
    IF data.kind = "function" THEN ApplyFn(deserializeRow(latestRow))
    ELSE data.obj

\* First statement of every callback, in the order of latestRows: the
\* in-place UPDATE (which returns one of the rows it changed), or the
\* UPDATE closing the latest version.
RECURSIVE ManyFirst(_, _, _, _, _)
ManyFirst(st, order, j, encodedCheckpoint, data) ==
    IF j > Len(order) \/ ~st.ok THEN {st}
    ELSE LET latestRow == order[j]
             obj == ManyObj(data, latestRow)
             inPlace == latestRow.effectiveFromCheckpoint = encodedCheckpoint
             matched ==
                {r \in st.tbl :
                    /\ IdWhere(r, latestRow.id)
                    /\ IF inPlace
                       THEN r.effectiveFromCheckpoint = encodedCheckpoint
                       ELSE r.effectiveToCheckpoint = latest}
             changed ==
                {IF inPlace
                 THEN [r EXCEPT !.v = IF "v" \in DOMAIN obj THEN obj.v ELSE r.v]
                 ELSE [r EXCEPT !.effectiveToCheckpoint = encodedCheckpoint] :
                    r \in matched}
             returned == IF inPlace THEN changed ELSE {latestRow}
         IN  IF ~PkOk(st.tbl, matched, changed) \/ (inPlace /\ matched = {})
             THEN {[st EXCEPT !.ok = FALSE]}
             ELSE UNION {
                    ManyFirst([st EXCEPT !.tbl = Updated(st.tbl, matched, changed),
                                         !.rows = Append(st.rows, deserializeRow(m))],
                              order, j + 1, encodedCheckpoint, data)
                    : m \in returned}

\* Second statement of the callbacks that closed a version: the INSERT.
RECURSIVE ManySecond(_, _, _, _, _)
ManySecond(st, order, j, encodedCheckpoint, data) ==
    IF j > Len(order) \/ ~st.ok THEN st
    ELSE LET latestRow == order[j]
             obj == ManyObj(data, latestRow)
             row == Version(latestRow.id,
                            IF "v" \in DOMAIN obj THEN obj.v ELSE latestRow.v,
                            encodedCheckpoint, latest)
         IN  IF latestRow.effectiveFromCheckpoint = encodedCheckpoint
             THEN ManySecond(st, order, j + 1, encodedCheckpoint, data)
             ELSE IF \E r \in st.tbl : SamePk(r, row)
             THEN [st EXCEPT !.ok = FALSE]
             ELSE ManySecond(
                    [st EXCEPT !.tbl = st.tbl \cup {row},
                               !.rows = [st.rows EXCEPT ![j] = deserializeRow(row)]],
                    order, j + 1, encodedCheckpoint, data)

\* Mutant: current versions that start after the checkpoint are skipped
\* and the others updated.
updateManySkippingPast(tbl, c, where, data) ==
    LET encodedCheckpoint == encodeCheckpoint(c)
        latestRows == {r \in tbl :
                          /\ r.effectiveToCheckpoint = latest
                          /\ WhereMatches(where, r)
                          /\ ~TextLess(encodedCheckpoint,
                                       r.effectiveFromCheckpoint)}
        run(order) ==
            {ManySecond(st, order, 1, encodedCheckpoint, data) :
                st \in ManyFirst([ok |-> TRUE, tbl |-> tbl, rows |-> <<>>],
                                 order, 1, encodedCheckpoint, data)}
    IN  {IF st.ok THEN Ok(st.tbl, st.rows, TRUE)
         ELSE Fail(tbl, "UniqueViolation") :
            st \in UNION {run(order) : order \in Orders(latestRows)}}

updateMany(tbl, c, where, data) ==
    LET encodedCheckpoint == encodeCheckpoint(c)
        latestRows == {r \in tbl :
                          /\ r.effectiveToCheckpoint = latest
                          /\ WhereMatches(where, r)}
        run(order) ==
            {ManySecond(st, order, 1, encodedCheckpoint, data) :
                st \in ManyFirst([ok |-> TRUE, tbl |-> tbl, rows |-> <<>>],
                                 order, 1, encodedCheckpoint, data)}
    IN  IF \E r \in latestRows :
                TextLess(encodedCheckpoint, r.effectiveFromCheckpoint)
        THEN {Fail(tbl, "Cannot update a record in the past")}
        ELSE {IF st.ok THEN Ok(st.tbl, st.rows, TRUE)
              ELSE Fail(tbl, "UniqueViolation") :
                    st \in UNION {run(order) : order \in Orders(latestRows)}}

(***************************************************************************)
(* Namespaces.  pg holds the database the store instances share and the    *)
(* fields of each instance that concern it: the table ponder_metadata of   *)
(* the schema public (has_ponder_metadata once it is created), the schemas *)
(* of pg_namespace, the <table>_versioned tables with their versions, the  *)
(* views of the schema public, the notifications of the channel            *)
(* namespace_published sent and not yet handled, per instance its schema,  *)
(* publicSchema and publicNamespace, the number of calls made, what the    *)
(* last method returned, and the namespaces whose drop schema a publish    *)
(* has started and left behind when its transaction ended.                 *)
(* A schema is the string JSON.stringify gives for it; a version of a      *)
(* table is its id and its effectiveToCheckpoint.                          *)
(***************************************************************************)
Stores == 1 .. NumStores

undefined == "undefined"

\* The schemas a store is given: one without tables, one with a table,
\* one with two tables of which Person has an enum column.
Schemas == {"", "Pet", "Pet,Person"}

\* Object.keys(schema.tables)
Tables(schema) ==
    CASE schema = "" -> {}
      [] schema = "Pet" -> {"Pet"}
      [] schema = "Pet,Person" -> {"Pet", "Person"}
      [] OTHER -> {}

TableVersions ==
    {[id |-> "1", effectiveToCheckpoint |-> "latest"],
     [id |-> "1", effectiveToCheckpoint |-> "9"]}

\* `ponder_${new Date().getTime()}`: instance k is constructed at time k.
databaseSchemaName(k) == "ponder_" \o ToString(k)

\* namespace_version < nspname as texts: the names have one length, and
\* compare as their timestamps do.
NamespaceLess(a, b) ==
    \E i, j \in Stores :
        i < j /\ a = databaseSchemaName(i) /\ b = databaseSchemaName(j)

\* What a method of instance k returned: ok unless it threw; schema is the
\* schema reload was called with.
Returned(method, k, ok) ==
    [method |-> method, store |-> k, ok |-> ok, schema |-> undefined]

Constructed ==
    [has_ponder_metadata |-> FALSE,
     ponder_metadata |-> {},
     pg_namespace |-> {},
     tables |-> {},
     views |-> {},
     notifications |-> {},
     drops |-> {},
     stores |-> [k \in Stores |->
                    [schema |-> undefined, publicSchema |-> undefined,
                     publicNamespace |-> undefined]],
     calls |-> 0,
     returned |-> Returned("constructor", 0, TRUE)]

\* insert into ponder_metadata ... on conflict (namespace_version) do
\* nothing: a row of the namespace that is there stays as it is.
insertMetadata(rows, nspname, schema) ==
    IF \E r \in rows : r.namespace_version = nspname
    THEN rows
    ELSE rows \cup {[namespace_version |-> nspname, schema |-> schema,
                     is_published |-> FALSE]}

\* The table has an enum column: of the tables of the model, Person.
isEnumColumn(table) == table = "Person"

\* reload({ schema }) of instance k: nothing without any schema; else the
\* schema is taken and, in one transaction, the namespace and
\* ponder_metadata are created where missing, the row of the namespace is
\* inserted, and each table of the schema is dropped with the views on it
\* and created again.  The check constraint of an enum column is built
\* from the enums of the argument schema, also when the schema in use is
\* the one the instance had: without an argument that throws a TypeError,
\* and the transaction is rolled back.
reload(d, k, schema) ==
    LET this == d.stores[k]
        nspname == databaseSchemaName(k)
        new == IF schema # undefined THEN schema ELSE this.schema
    IN  IF this.schema = undefined /\ schema = undefined
        THEN [d EXCEPT !.returned = Returned("reload", k, TRUE)]
        ELSE IF schema = undefined
                /\ \E table \in Tables(new) : isEnumColumn(table)
        THEN [d EXCEPT !.returned = Returned("reload", k, FALSE)]
        ELSE [d EXCEPT
                !.stores[k].schema = new,
                !.has_ponder_metadata = TRUE,
                !.pg_namespace = @ \cup {nspname},
                !.ponder_metadata = insertMetadata(@, nspname, new),
                !.tables =
                    {t \in @ : ~(t.nspname = nspname
                                 /\ t.table \in Tables(new))}
                        \cup {[nspname |-> nspname, table |-> table,
                               rows |-> {}] : table \in Tables(new)},
                !.views =
                    {v \in @ : ~(v.nspname = nspname
                                 /\ v.table \in Tables(new))},
                !.returned = [Returned("reload", k, TRUE) EXCEPT
                                 !.schema = schema]]

\* The statements of publish(), in their order.
setPublished(d, nspname) ==
    [d EXCEPT !.ponder_metadata =
        {IF r.namespace_version = nspname
         THEN [r EXCEPT !.is_published = TRUE] ELSE r : r \in @}]

deleteOlder(d, nspname) ==
    [d EXCEPT !.ponder_metadata =
        {r \in @ : ~NamespaceLess(r.namespace_version, nspname)}]

\* drop schema ... cascade if exists: the tables of the namespace go, and
\* the views that select from them.
dropSchema(d, nspname) ==
    [d EXCEPT !.pg_namespace = @ \ {nspname},
              !.tables = {t \in @ : t.nspname # nspname},
              !.views = {v \in @ : v.nspname # nspname},
              !.drops = @ \ {nspname}]

\* Every drop of the set, one after the other.
dropSchemas(d, nspnames) ==
    [d EXCEPT !.pg_namespace = @ \ nspnames,
              !.tables = {t \in @ : t.nspname \notin nspnames},
              !.views = {v \in @ : v.nspname \notin nspnames},
              !.drops = @ \ nspnames]

\* The rows of the select from pg_namespace for which the callback of
\* filter starts a drop: all but the one of the current schema, in the
\* order of the rows.
Others(rows, nspname) ==
    SelectSeq(rows, LAMBDA r : r # nspname)

\* The namespaces for which a drop is started.
DropsStarted(rows, nspname) ==
    {rows[i] : i \in DOMAIN rows} \ {nspname}

View(versioned, nspname, table) ==
    [versioned |-> versioned, nspname |-> nspname, table |-> table]

\* The name of a view in the schema public.
ViewName(v) == <<v.table, v.versioned>>

createViews(d, nspname, schema) ==
    [d EXCEPT !.views =
        @ \cup {View(versioned, nspname, table) :
                    versioned \in BOOLEAN, table \in Tables(schema)}]

\* create view fails on a name that is taken and on a table that is not
\* there.
createViewsFails(d, nspname, schema) ==
    \E table \in Tables(schema) :
        \/ \E v \in d.views : v.table = table
        \/ ~\E t \in d.tables : t.nspname = nspname /\ t.table = table

\* The rows whose is_published the update sets send their JSON to every
\* instance that listens, when the transaction commits.
notify(d, nspname) ==
    {[to |-> k, schema |-> r.schema] :
        k \in Stores,
        r \in {r \in d.ponder_metadata : r.namespace_version = nspname}}

\* publish() of instance k, rows being the rows of its select from
\* pg_namespace: one transaction, rolled back when a statement or the
\* callback throws.  The callback of filter starts a drop for every other
\* row and awaits none.  The connection of the transaction runs one
\* statement at a time, in the order in which they were started: the
\* first drop is sent at once, the others wait behind it, and the create
\* view statements behind them.  With a table in the schema the views are
\* awaited, so every drop has run when the callback ends.  Without one
\* the callback ends right after the first drop is sent, and with no
\* schema it throws there: commit or rollback follows the first drop, and
\* the other drops are left to run after the transaction.
publish(d, k, rows) ==
    LET this == d.stores[k]
        nspname == databaseSchemaName(k)
        others == Others(rows, nspname)
        first == IF others = <<>> THEN {} ELSE {Head(others)}
        later == DropsStarted(rows, nspname) \ first
        marked == deleteOlder(setPublished(d, nspname), nspname)
        dropped == dropSchemas(marked, DropsStarted(rows, nspname))
    IN  IF ~d.has_ponder_metadata
        THEN [d EXCEPT !.returned = Returned("publish", k, FALSE)]
        ELSE IF this.schema = undefined
        THEN [d EXCEPT !.drops = @ \cup later,
                       !.returned = Returned("publish", k, FALSE)]
        ELSE IF Tables(this.schema) = {}
        THEN [dropSchemas(marked, first) EXCEPT
                !.drops = @ \cup later,
                !.notifications = @ \cup notify(marked, nspname),
                !.returned = Returned("publish", k, TRUE)]
        ELSE IF createViewsFails(dropped, nspname, this.schema)
        THEN [d EXCEPT !.returned = Returned("publish", k, FALSE)]
        ELSE [createViews(dropped, nspname, this.schema) EXCEPT
                !.notifications = @ \cup notify(dropped, nspname),
                !.returned = Returned("publish", k, TRUE)]

\* The rows of ponder_metadata, ordered by namespace_version descending:
\* the first one.
Newest(rows) ==
    CHOOSE r \in rows :
        \A o \in rows : ~NamespaceLess(r.namespace_version, o.namespace_version)

\* initialLoadPublicSchema picking the newest row whether published or not.
initialLoadNewestRow(d, k) ==
    LET row == Newest(d.ponder_metadata)
    IN  IF d.ponder_metadata = {}
        THEN [d EXCEPT !.returned = Returned("findUniquePublic", k, FALSE)]
        ELSE [d EXCEPT
                !.stores[k].publicSchema = row.schema,
                !.stores[k].publicNamespace =
                    IF row.is_published THEN "public"
                    ELSE row.namespace_version]

initialLoadPublicSchema(d, k) ==
    LET this == d.stores[k]
        schemaRow == d.ponder_metadata
        published == {r \in d.ponder_metadata : r.is_published}
    IN  IF this.publicSchema # undefined /\ this.publicNamespace # undefined
        THEN d
        ELSE IF ~d.has_ponder_metadata \/ schemaRow = {}
        THEN [d EXCEPT !.returned = Returned("findUniquePublic", k, FALSE)]
        ELSE IF Newest(schemaRow).is_published
        THEN [d EXCEPT
                !.stores[k].publicSchema = Newest(schemaRow).schema,
                !.stores[k].publicNamespace = "public"]
        ELSE IF published = {}
        THEN [d EXCEPT
                !.stores[k].publicSchema = Newest(schemaRow).schema,
                !.stores[k].publicNamespace =
                    Newest(schemaRow).namespace_version]
        ELSE [d EXCEPT
                !.stores[k].publicSchema = Newest(published).schema,
                !.stores[k].publicNamespace = "public"]

\* findUniquePublic of instance k, as far as the namespace and the schema
\* it reads with: the load, where publicSchema is not set, then the read.
findUniquePublic(d, k) ==
    LET loaded == IF d.stores[k].publicSchema = undefined
                  THEN initialLoadPublicSchema(
                           [d EXCEPT !.returned =
                               Returned("findUniquePublic", k, TRUE)], k)
                  ELSE [d EXCEPT !.returned =
                           Returned("findUniquePublic", k, TRUE)]
    IN  loaded

handlePublishedSchema(d, notification) ==
    [d EXCEPT !.stores[notification.to].publicSchema = notification.schema,
              !.stores[notification.to].publicNamespace = "public",
              !.notifications = @ \ {notification},
              !.returned = Returned("handlePublishedSchema",
                                    notification.to, TRUE)]

\* The rows a view of the schema public shows.
ViewRows(d, v) ==
    LET rows == UNION {t.rows : t \in {t \in d.tables :
                           t.nspname = v.nspname /\ t.table = v.table}}
    IN  IF v.versioned THEN rows
        ELSE {r \in rows : r.effectiveToCheckpoint = "latest"}

(***************************************************************************)
(* The cached transport (ponderTransport), in rpc: the rows of the request *)
(* cache of the sync store, the number of calls made to the underlying     *)
(* transport, and one record per call of request({ method, params }): its  *)
(* method, the cache key built from its parameters, at pc the await it     *)
(* stands before, what it has read and received, and what it has returned  *)
(* or thrown.  after is the set of the calls that had returned when it was *)
(* made.                                                                   *)
(***************************************************************************)
cachedMethods == {"eth_call", "eth_getBalance", "eth_getCode", "eth_getStorageAt"}

Methods == cachedMethods \cup {"eth_chainId"}
Addresses == {"a", "A"}
BlockTags == {"0xa", "0xA", "latest"}
ChainIds == {1, 2}
\* The strings network.request can resolve with, the empty one among them.
Responses == {"", "0x", "0x1"}

hexToBigInt(hex) == IF hex \in {"0xa", "0xA"} THEN 10 ELSE 0

\* The key of a cached method: the method and its lower-cased parameters,
\* the address, and the call data or the slot ("d" here) where it has one.
requestKey(method, address) ==
    IF method \in {"eth_call", "eth_getStorageAt"}
    THEN <<method, toLowerCase(address), toLowerCase("d")>>
    ELSE <<method, toLowerCase(address)>>

blockNumberBigInt(blockNumber) ==
    IF blockNumber = "latest" THEN maxUint256 ELSE hexToBigInt(blockNumber)

\* The rows of the request cache with the primary key given: one at most.
getRpcRequestResult(cache, chainId, blockNumber, request) ==
    {row \in cache : /\ row.chainId = chainId
                     /\ row.blockNumber = blockNumber
                     /\ row.request = request}

\* The row is stored under its primary key.
insertRpcRequestResult(cache, chainId, blockNumber, request, result) ==
    (cache \ getRpcRequestResult(cache, chainId, blockNumber, request))
        \cup {[chainId |-> chainId, blockNumber |-> blockNumber,
               request |-> request, result |-> result]}

\* cachedResult?.result as a condition: a string is true unless empty.
Truthy(string) == string # ""

NoRequests == [cache |-> {}, calls |-> <<>>, roundTrips |-> 0]

Running(call) == call.pc \in {"lookup", "fetch", "insert"}

otherVars ==
    <<store, idType, cur, last, logging, log, late, requestQueue, runtime, pg,
      before, tx>>

\* Mutant: every method is looked up in the cache and stored.
RpcRequestCachingAll(overlap) ==
    /\ Len(rpc.calls) < MaxRpcCalls
    /\ overlap \/ \A i \in 1 .. Len(rpc.calls) : ~Running(rpc.calls[i])
    /\ \E method \in Methods, address \in Addresses, blockNumber \in BlockTags,
          chainId \in ChainIds :
        LET call == [method |-> method,
                     request |-> requestKey(method, address),
                     blockNumber |-> blockNumberBigInt(blockNumber),
                     chainId |-> chainId,
                     pc |-> "lookup",
                     read |-> FALSE,
                     fetched |-> FALSE,
                     response |-> "",
                     result |-> "",
                     error |-> "",
                     after |-> {i \in 1 .. Len(rpc.calls) :
                                    rpc.calls[i].pc = "returned"}]
        IN  rpc' = [rpc EXCEPT !.calls = Append(@, call)]
    /\ UNCHANGED otherVars

\* request({ method, params }) is called, up to its first await; the calls
\* before it have all come to their end unless overlap is allowed.
RpcRequest(overlap) ==
    /\ Len(rpc.calls) < MaxRpcCalls
    /\ overlap \/ \A i \in 1 .. Len(rpc.calls) : ~Running(rpc.calls[i])
    /\ \E method \in Methods, address \in Addresses, blockNumber \in BlockTags,
          chainId \in ChainIds :
        LET cached == method \in cachedMethods
            call == [method |-> method,
                     request |-> IF cached THEN requestKey(method, address)
                                 ELSE <<>>,
                     blockNumber |-> IF cached
                                     THEN blockNumberBigInt(blockNumber)
                                     ELSE 0,
                     chainId |-> chainId,
                     pc |-> IF cached THEN "lookup" ELSE "fetch",
                     read |-> FALSE,
                     fetched |-> FALSE,
                     response |-> "",
                     result |-> "",
                     error |-> "",
                     after |-> {i \in 1 .. Len(rpc.calls) :
                                    rpc.calls[i].pc = "returned"}]
        IN  rpc' = [rpc EXCEPT !.calls = Append(@, call)]
    /\ UNCHANGED otherVars

RpcRequestInTurn == RpcRequest(FALSE)

\* await syncStore.getRpcRequestResult(...) and the test of its result.
RpcLookup ==
    /\ \E i \in 1 .. Len(rpc.calls) :
        LET call == rpc.calls[i]
            rows == getRpcRequestResult(rpc.cache, call.chainId,
                                        call.blockNumber, call.request)
        IN  /\ call.pc = "lookup"
            /\ IF \E row \in rows : Truthy(row.result)
               THEN \E row \in rows :
                        rpc' = [rpc EXCEPT !.calls[i].pc = "returned",
                                           !.calls[i].read = TRUE,
                                           !.calls[i].result = row.result]
               ELSE rpc' = [rpc EXCEPT !.calls[i].pc = "fetch",
                                       !.calls[i].read = TRUE]
    /\ UNCHANGED otherVars

\* await network.request(body): the underlying transport answers with a
\* string or throws.
RpcFetch ==
    /\ \E i \in 1 .. Len(rpc.calls) :
        LET call == rpc.calls[i]
        IN  /\ call.pc = "fetch"
            /\ \/ \E response \in Responses :
                    rpc' = [rpc EXCEPT
                              !.roundTrips = @ + 1,
                              !.calls[i].fetched = TRUE,
                              !.calls[i].response = response,
                              !.calls[i].pc =
                                  IF call.method \in cachedMethods
                                  THEN "insert" ELSE "returned",
                              !.calls[i].result =
                                  IF call.method \in cachedMethods
                                  THEN "" ELSE response]
               \/ rpc' = [rpc EXCEPT
                              !.roundTrips = @ + 1,
                              !.calls[i].fetched = TRUE,
                              !.calls[i].pc = "failed",
                              !.calls[i].error = "RpcRequestError"]
    /\ UNCHANGED otherVars

\* await syncStore.insertRpcRequestResult(...) and the return.
RpcInsert ==
    /\ \E i \in 1 .. Len(rpc.calls) :
        LET call == rpc.calls[i]
        IN  /\ call.pc = "insert"
            /\ rpc' = [rpc EXCEPT
                          !.cache = insertRpcRequestResult(
                                        @, call.chainId, call.blockNumber,
                                        call.request, call.response),
                          !.calls[i].pc = "returned",
                          !.calls[i].result = call.response]
    /\ UNCHANGED otherVars

\* before[c] is the store as it was before the first call with checkpoint
\* c or a later one, where a run keeps it; NoSnapshots where none does.
NoSnapshots == <<>>

\* tx holds the update calls in progress of a run that does not await
\* them one by one, NoTransactions in the other runs.
NoTransactions == <<>>

\* A call of a store method with what it returns; Idle between two calls.
Called(op, c, id, o) ==
    [op |-> op, c |-> c, id |-> id, ok |-> o.ok, err |-> o.err,
     flag |-> o.flag]

Idle == Called("idle", 0, "", Ok({}, <<>>, FALSE))

(***************************************************************************)
(* The request queue.  A task is the number of the request() call that     *)
(* queued it.  requestQueue holds the variables of the closure of          *)
(* createRequestQueue; runtime holds Date.now(), the due times of the      *)
(* timers armed with setTimeout and not yet run, the number of request()   *)
(* calls made, the tasks passed to transport.request in the order of the   *)
(* calls, and those whose transport promise has not settled.  The map      *)
(* pendingRequests and its key id are written and never read: they are     *)
(* left out.                                                               *)
(***************************************************************************)
\* 1000 / maxRequestsPerSecond is exact for the rates of the model.
interval(maxRequestsPerSecond) ==
    IF 1000 \div maxRequestsPerSecond > 50
    THEN 1000 \div maxRequestsPerSecond
    ELSE 50

requestBatchSize(maxRequestsPerSecond) ==
    IF 1000 \div maxRequestsPerSecond > 50
    THEN 1
    ELSE maxRequestsPerSecond \div 20

createRequestQueue(maxRequestsPerSecond) ==
    [maxRequestsPerSecond |-> maxRequestsPerSecond,
     queue |-> <<>>,
     lastRequestTime |-> 0,
     pending |-> 0,
     timing |-> FALSE,
     on |-> TRUE]

\* promises[k] is the promise request() returned for task k, answers[k]
\* what the transport has answered to its call.
Started ==
    [now |-> StartTime, timers |-> <<>>, submitted |-> 0, calls |-> <<>>,
     inflight |-> {}, promises |-> <<>>, answers |-> <<>>]

Unsettled == [state |-> "pending", value |-> "none"]

\* What transport.request can come to: a result, or an error.
TransportOutcomes ==
    {[ok |-> TRUE, value |-> "0x1"], [ok |-> FALSE, value |-> "RpcRequestError"]}

Range(seq) == {seq[i] : i \in 1 .. Len(seq)}

Remove(seq, i) == SubSeq(seq, 1, i - 1) \o SubSeq(seq, i + 1, Len(seq))

\* Mutant: the task is taken from the end of the queue (pop for shift).
processQueueFromEnd(rq, rt) ==
    IF ~rq.on \/ rq.queue = <<>>
    THEN [requestQueue |-> rq, runtime |-> rt]
    ELSE
        LET every == interval(rq.maxRequestsPerSecond)
            sinceLast == rt.now - rq.lastRequestTime
            due == sinceLast >= every
            batch == requestBatchSize(rq.maxRequestsPerSecond)
            n == IF ~due THEN 0
                 ELSE IF Len(rq.queue) < batch THEN Len(rq.queue)
                 ELSE batch
            sent == [i \in 1 .. n |-> rq.queue[Len(rq.queue) + 1 - i]]
            timeSinceLastRequest == IF due THEN 0 ELSE sinceLast
        IN  [requestQueue |->
                [rq EXCEPT !.queue = SubSeq(@, 1, Len(@) - n),
                           !.lastRequestTime = IF due THEN rt.now ELSE @,
                           !.pending = @ + n,
                           !.timing = TRUE],
             runtime |->
                [rt EXCEPT !.calls = @ \o sent,
                           !.inflight = @ \cup Range(sent),
                           !.timers =
                               IF rq.timing THEN @
                               ELSE Append(@, rt.now + every
                                                  - timeSinceLastRequest)]]

\* Mutant: pause() is not looked at.
processQueueIgnoringPause(rq, rt) ==
    IF rq.queue = <<>>
    THEN [requestQueue |-> rq, runtime |-> rt]
    ELSE
        LET every == interval(rq.maxRequestsPerSecond)
            sinceLast == rt.now - rq.lastRequestTime
            due == sinceLast >= every
            batch == requestBatchSize(rq.maxRequestsPerSecond)
            n == IF ~due THEN 0
                 ELSE IF Len(rq.queue) < batch THEN Len(rq.queue)
                 ELSE batch
            sent == SubSeq(rq.queue, 1, n)
            timeSinceLastRequest == IF due THEN 0 ELSE sinceLast
        IN  [requestQueue |->
                [rq EXCEPT !.queue = SubSeq(@, n + 1, Len(@)),
                           !.lastRequestTime = IF due THEN rt.now ELSE @,
                           !.pending = @ + n,
                           !.timing = TRUE],
             runtime |->
                [rt EXCEPT !.calls = @ \o sent,
                           !.inflight = @ \cup Range(sent),
                           !.timers =
                               IF rq.timing THEN @
                               ELSE Append(@, rt.now + every
                                                  - timeSinceLastRequest)]]

\* Mutant: the time since the last batch is not looked at.
processQueueAtOnce(rq, rt) ==
    IF ~rq.on \/ rq.queue = <<>>
    THEN [requestQueue |-> rq, runtime |-> rt]
    ELSE
        LET every == interval(rq.maxRequestsPerSecond)
            batch == requestBatchSize(rq.maxRequestsPerSecond)
            n == IF Len(rq.queue) < batch THEN Len(rq.queue) ELSE batch
            sent == SubSeq(rq.queue, 1, n)
        IN  [requestQueue |->
                [rq EXCEPT !.queue = SubSeq(@, n + 1, Len(@)),
                           !.lastRequestTime = rt.now,
                           !.pending = @ + n,
                           !.timing = TRUE],
             runtime |->
                [rt EXCEPT !.calls = @ \o sent,
                           !.inflight = @ \cup Range(sent),
                           !.timers =
                               IF rq.timing THEN @
                               ELSE Append(@, rt.now + every)]]

\* Mutant: a timer is armed whether or not one is armed already.
processQueueArmingAlways(rq, rt) ==
    IF ~rq.on \/ rq.queue = <<>>
    THEN [requestQueue |-> rq, runtime |-> rt]
    ELSE
        LET every == interval(rq.maxRequestsPerSecond)
            sinceLast == rt.now - rq.lastRequestTime
            due == sinceLast >= every
            batch == requestBatchSize(rq.maxRequestsPerSecond)
            n == IF ~due THEN 0
                 ELSE IF Len(rq.queue) < batch THEN Len(rq.queue)
                 ELSE batch
            sent == SubSeq(rq.queue, 1, n)
            timeSinceLastRequest == IF due THEN 0 ELSE sinceLast
        IN  [requestQueue |->
                [rq EXCEPT !.queue = SubSeq(@, n + 1, Len(@)),
                           !.lastRequestTime = IF due THEN rt.now ELSE @,
                           !.pending = @ + n,
                           !.timing = TRUE],
             runtime |->
                [rt EXCEPT !.calls = @ \o sent,
                           !.inflight = @ \cup Range(sent),
                           !.timers = Append(@, rt.now + every
                                                    - timeSinceLastRequest)]]

\* processQueue: when the queue is on and not empty, and interval ms have
\* passed since the last batch, the first requestBatchSize tasks are passed
\* to the transport; then a timer is armed unless one is.
processQueue(rq, rt) ==
    IF ~rq.on \/ rq.queue = <<>>
    THEN [requestQueue |-> rq, runtime |-> rt]
    ELSE
        LET every == interval(rq.maxRequestsPerSecond)
            sinceLast == rt.now - rq.lastRequestTime
            due == sinceLast >= every
            batch == requestBatchSize(rq.maxRequestsPerSecond)
            n == IF ~due THEN 0
                 ELSE IF Len(rq.queue) < batch THEN Len(rq.queue)
                 ELSE batch
            sent == SubSeq(rq.queue, 1, n)
            timeSinceLastRequest == IF due THEN 0 ELSE sinceLast
        IN  [requestQueue |->
                [rq EXCEPT !.queue = SubSeq(@, n + 1, Len(@)),
                           !.lastRequestTime = IF due THEN rt.now ELSE @,
                           !.pending = @ + n,
                           !.timing = TRUE],
             runtime |->
                [rt EXCEPT !.calls = @ \o sent,
                           !.inflight = @ \cup Range(sent),
                           !.timers =
                               IF rq.timing THEN @
                               ELSE Append(@, rt.now + every
                                                  - timeSinceLastRequest)]]

\* What size() and pending() report when their setImmediate callback runs.
size == Len(requestQueue.queue)

pending == requestQueue.pending

storeVars ==
    <<store, idType, cur, last, logging, log, late, pg, before, tx>>

\* The state a call of the queue leaves.
Becomes(next) ==
    /\ requestQueue' = next.requestQueue
    /\ runtime' = next.runtime
    /\ UNCHANGED <<storeVars, rpc>>

InitQueue ==
    /\ store = {}
    /\ idType = "string"
    /\ cur = FirstCheckpoint
    /\ last = Idle
    /\ logging = FALSE
    /\ log = <<>>
    /\ late = FALSE
    /\ \E maxRequestsPerSecond \in RequestRates :
            requestQueue = createRequestQueue(maxRequestsPerSecond)
    /\ runtime = Started
    /\ rpc = NoRequests
    /\ pg = Constructed
    /\ before = NoSnapshots
    /\ tx = NoTransactions

\* request(params), the call number max at most.
RequestUpTo(max) ==
    /\ runtime.submitted < max
    /\ LET task == runtime.submitted + 1
       IN  Becomes(processQueue(
                [requestQueue EXCEPT !.queue = Append(@, task)],
                [runtime EXCEPT !.submitted = task,
                                !.promises = Append(@, Unsettled),
                                !.answers = Append(@, Unsettled)]))

Request == RequestUpTo(MaxRequests)

RequestBurst == RequestUpTo(MaxBurst)

RequestLive == RequestUpTo(MaxLiveRequests)

\* Mutant: start() sets on and does not look at the queue.
StartWithoutProcessQueue ==
    /\ requestQueue' = [requestQueue EXCEPT !.on = TRUE]
    /\ UNCHANGED <<storeVars, runtime, rpc>>

Start == Becomes(processQueue([requestQueue EXCEPT !.on = TRUE], runtime))

Pause ==
    /\ requestQueue' = [requestQueue EXCEPT !.on = FALSE]
    /\ UNCHANGED <<storeVars, runtime, rpc>>

\* Mutant: clear() resets the count of pending requests as well.
ClearResettingPending ==
    /\ requestQueue' = [requestQueue EXCEPT !.queue = <<>>,
                                            !.lastRequestTime = 0,
                                            !.pending = 0]
    /\ UNCHANGED <<storeVars, runtime, rpc>>

Clear ==
    /\ requestQueue' = [requestQueue EXCEPT !.queue = <<>>,
                                            !.lastRequestTime = 0]
    /\ UNCHANGED <<storeVars, runtime, rpc>>

\* The callback of setTimeout, run at its due time or later.
TimerFires ==
    \E i \in 1 .. Len(runtime.timers) :
        /\ runtime.timers[i] <= runtime.now
        /\ Becomes(processQueue(
                [requestQueue EXCEPT !.timing = FALSE],
                [runtime EXCEPT !.timers = Remove(@, i)]))

\* Mutant: the finally callback does not count.
SettleWithoutCount ==
    \E task \in runtime.inflight : \E outcome \in TransportOutcomes :
        LET settled == [state |-> IF outcome.ok THEN "resolved"
                                  ELSE "rejected",
                        value |-> outcome.value]
        IN  /\ runtime' = [runtime EXCEPT !.inflight = @ \ {task},
                                          !.promises[task] = settled,
                                          !.answers[task] = settled]
            /\ UNCHANGED <<storeVars, requestQueue, rpc>>

\* Mutant: an error of the transport rejects every request in flight.
SettleRejectingAll ==
    \E task \in runtime.inflight : \E outcome \in TransportOutcomes :
        LET settled == [state |-> IF outcome.ok THEN "resolved"
                                  ELSE "rejected",
                        value |-> outcome.value]
            gone == IF outcome.ok THEN {task} ELSE runtime.inflight
        IN  /\ requestQueue' =
                    [requestQueue EXCEPT !.pending = @ - Cardinality(gone)]
            /\ runtime' =
                    [runtime EXCEPT
                        !.inflight = @ \ gone,
                        !.promises = [k \in DOMAIN @ |->
                                        IF k \in gone THEN settled ELSE @[k]],
                        !.answers = [k \in DOMAIN @ |->
                                        IF k \in gone THEN settled ELSE @[k]]]
            /\ UNCHANGED <<storeVars, rpc>>

\* The transport promise of a task settles: the then or the catch
\* callback settles the promise of the task, the finally callback counts.
Settle ==
    \E task \in runtime.inflight : \E outcome \in TransportOutcomes :
        LET settled == [state |-> IF outcome.ok THEN "resolved"
                                  ELSE "rejected",
                        value |-> outcome.value]
        IN  /\ requestQueue' = [requestQueue EXCEPT !.pending = @ - 1]
            /\ runtime' = [runtime EXCEPT !.inflight = @ \ {task},
                                          !.promises[task] = settled,
                                          !.answers[task] = settled]
            /\ UNCHANGED <<storeVars, rpc>>

\* Time passes, half an interval at a step: MaxTicks steps, and as many
\* more as it takes an armed timer to come due.
Tick ==
    LET step == interval(requestQueue.maxRequestsPerSecond) \div 2
    IN  /\ \/ runtime.now + step <= StartTime + MaxTicks * step
           \/ \E i \in 1 .. Len(runtime.timers) :
                    runtime.now < runtime.timers[i]
        /\ runtime' = [runtime EXCEPT !.now = @ + step]
        /\ UNCHANGED <<storeVars, requestQueue, rpc>>

NextQueue ==
    \/ Request
    \/ Start
    \/ Pause
    \/ Clear
    \/ TimerFires
    \/ Settle
    \/ Tick

SpecQueue == InitQueue /\ [][NextQueue]_vars

\* The queue of a caller that never calls clear().
NextQueueKept ==
    \/ Request
    \/ Start
    \/ Pause
    \/ TimerFires
    \/ Settle
    \/ Tick

SpecQueueKept == InitQueue /\ [][NextQueueKept]_vars

\* The event loop runs the callback of a timer that is due, time passes
\* while a timer waits, and the transport answers every call.
NextQueueLive ==
    \/ RequestLive
    \/ Start
    \/ Pause
    \/ Clear
    \/ TimerFires
    \/ Settle
    \/ Tick

SpecQueueFair ==
    /\ InitQueue
    /\ [][NextQueueLive]_vars
    /\ WF_vars(TimerFires)
    /\ WF_vars(Tick)
    /\ WF_vars(Settle)

\* The calls of the queue made in one instant.
NextBurst ==
    \/ RequestBurst
    \/ Start
    \/ Pause
    \/ Clear

SpecBurst == InitQueue /\ [][NextBurst]_vars

(***************************************************************************)
(* The indexer calling the store: one action per store method.  cur is     *)
(* the checkpoint of the event being processed: handlers write at cur, the *)
(* indexing loop moves to later checkpoints only, and resumes from the     *)
(* safe checkpoint after a revert.  Calls are awaited one after another:   *)
(* last is the call in progress with what it returns, "idle" between two   *)
(* calls; for revert its flag tells whether the table changed.  With       *)
(* logging on, log is the list of the write calls made.  late tells that   *)
(* the caller has gone back to an earlier checkpoint without a revert.     *)
(***************************************************************************)
Entry(op, id, obj, data, rows) ==
    [op |-> op, c |-> cur, id |-> id, obj |-> obj, data |-> data,
     rows |-> rows]

NoData == [kind |-> "object", obj |-> EmptyObject]

Init ==
    /\ store = {}
    /\ idType = "string"
    /\ cur = FirstCheckpoint
    /\ last = Idle
    /\ logging = FALSE
    /\ log = <<>>
    /\ late = FALSE
    /\ requestQueue = createRequestQueue(1)
    /\ runtime = Started
    /\ rpc = NoRequests
    /\ pg = Constructed
    /\ before = NoSnapshots
    /\ tx = NoTransactions

InitLog ==
    /\ store = {}
    /\ idType = "string"
    /\ cur = FirstCheckpoint
    /\ last = Idle
    /\ logging = TRUE
    /\ log = <<>>
    /\ late = FALSE
    /\ requestQueue = createRequestQueue(1)
    /\ runtime = Started
    /\ rpc = NoRequests
    /\ pg = Constructed
    /\ before = NoSnapshots
    /\ tx = NoTransactions

CanCall == last = Idle /\ (logging => Len(log) < MaxLog)

Returns(op, id, o, entry) ==
    /\ store' = o.tbl
    /\ last' = Called(op, cur, id, o)
    /\ log' = IF logging THEN Append(log, entry) ELSE log
    /\ UNCHANGED <<idType, cur, logging, late, requestQueue, runtime, rpc, pg, before, tx>>

\* The awaited call has returned to the handler; the run ends with the
\* first call made out of order.
Return ==
    /\ last # Idle
    /\ ~late
    /\ last' = Idle
    /\ UNCHANGED <<store, idType, cur, logging, log, late, requestQueue, runtime, rpc, pg, before, tx>>

\* The indexing loop takes the next event.
Advance ==
    /\ last = Idle
    /\ ~late
    /\ \E c \in Checkpoints : c > cur /\ cur' = c
    /\ before' = IF before = NoSnapshots THEN before
                 ELSE [c \in Checkpoints |->
                          IF cur < c /\ c <= cur' THEN store ELSE before[c]]
    /\ UNCHANGED <<store, idType, last, logging, log, late, requestQueue,
                   runtime, rpc, pg, tx>>

Create ==
    /\ CanCall
    /\ \E id \in Ids, data \in Objects :
        \E o \in create(store, cur, id, data) :
            Returns("create", id, o, Entry("create", id, data, NoData, <<>>))

\* The row lists handed to createMany: up to one row more than a chunk,
\* any ids, one set of column values.
ManyData ==
    UNION {{[j \in 1 .. n |-> [id |-> ids[j], obj |-> obj]] :
                ids \in [1 .. n -> Ids], obj \in Objects} :
            n \in 1 .. (MAX_BATCH_SIZE + 1)}

CreateMany ==
    /\ CanCall
    /\ \E data \in ManyData :
        \E o \in createMany(store, cur, data) :
            Returns("createMany", "", o,
                    Entry("createMany", "", EmptyObject, NoData, data))

Update ==
    /\ CanCall
    /\ \E id \in Ids, data \in UpdateData :
        \E o \in update(store, cur, id, data) :
            Returns("update", id, o, Entry("update", id, EmptyObject, data, <<>>))

UpdateMany ==
    /\ CanCall
    /\ \E where \in Objects, data \in UpdateData :
        \E o \in updateMany(store, cur, where, data) :
            Returns("updateMany", "", o,
                    Entry("updateMany", "", where, data, <<>>))

\* The create and update arguments of upsert: only one of the two is used by
\* a call, so an object given as update is also the one given as create.
UpsertData ==
    {b \in [create : Objects, update : UpdateData] :
        b.update.kind = "object" => b.update.obj = b.create}

Upsert ==
    /\ CanCall
    /\ \E id \in Ids, both \in UpsertData :
        \E o \in upsert(store, cur, id, both.create, both.update) :
            Returns("upsert", id, o,
                    Entry("upsert", id, both.create, both.update, <<>>))

Delete ==
    /\ CanCall
    /\ \E id \in Ids :
        \E o \in delete(store, cur, id) :
            Returns("delete", id, o, Entry("delete", id, EmptyObject, NoData, <<>>))

Revert ==
    /\ last = Idle
    /\ \E checkpoint \in Checkpoints :
        \E o \in revert(store, checkpoint) :
            /\ store' = o.tbl
            /\ last' = Called("revert", checkpoint, "",
                              [o EXCEPT !.flag = (o.tbl # store)])
            /\ cur' = IF checkpoint < cur THEN checkpoint ELSE cur
            /\ before' = IF before = NoSnapshots THEN before
                         ELSE [c \in Checkpoints |->
                                  IF c <= cur' THEN before[c] ELSE {}]
            /\ UNCHANGED <<idType, logging, log, late, requestQueue,
                           runtime, rpc, pg, tx>>

Next ==
    \/ Advance
    \/ Create
    \/ CreateMany
    \/ Update
    \/ UpdateMany
    \/ Upsert
    \/ Delete
    \/ Revert
    \/ Return

Spec == Init /\ [][Next]_vars

\* The write calls alone, each recorded in log.
NextLog ==
    \/ Advance
    \/ Create
    \/ CreateMany
    \/ Update
    \/ UpdateMany
    \/ Upsert
    \/ Delete
    \/ Return

SpecLog == InitLog /\ [][NextLog]_vars

\* A run of writes and reverts that keeps the store of every checkpoint
\* it has passed.
InitRevert ==
    /\ store = {}
    /\ idType = "string"
    /\ cur = FirstCheckpoint
    /\ last = Idle
    /\ logging = FALSE
    /\ log = <<>>
    /\ late = FALSE
    /\ requestQueue = createRequestQueue(1)
    /\ runtime = Started
    /\ rpc = NoRequests
    /\ pg = Constructed
    /\ before = [c \in Checkpoints |-> {}]
    /\ tx = NoTransactions

SpecRevert == InitRevert /\ [][Next]_vars

\* A caller that breaks the order of checkpoints: its next call carries
\* the checkpoint before the one of the call it has made last.
Rewind ==
    /\ last = Idle
    /\ ~late
    /\ late' = TRUE
    /\ cur > FirstCheckpoint
    /\ cur' = cur - 1
    /\ UNCHANGED <<store, idType, last, logging, log, requestQueue, runtime, rpc, pg, before, tx>>

\* The single-row and filtered writes, the last of them out of order.
NextPast ==
    \/ Advance
    \/ Rewind
    \/ Create
    \/ Update
    \/ UpdateMany
    \/ Upsert
    \/ Delete
    \/ Return

SpecPast == Init /\ [][NextPast]_vars

(***************************************************************************)
(* update calls that overlap.  Each call runs its statements in a          *)
(* transaction of its own (db.transaction().execute), at the isolation     *)
(* level READ COMMITTED of the database: a statement reads the committed   *)
(* rows and the writes of its own transaction; an UPDATE that meets a row  *)
(* written by a transaction in progress waits for it to end and then       *)
(* looks at the row again; the primary key is checked against the rows of  *)
(* every transaction.  store is the committed table; tx[t] is call t: at   *)
(* pc the statement it stands before, the row it has read, the rows it     *)
(* has written (old and new version) and inserted, not yet committed.      *)
(***************************************************************************)
Transactions == 1 .. 2

NoRow == Version("", 0, <<>>, <<>>)

IdleTx ==
    [pc |-> "idle", id |-> "", data |-> NoData, latestRow |-> NoRow,
     path |-> "", snapshot |-> {}, writes |-> {}, inserts |-> {},
     err |-> ""]

InProgress(t) == tx[t].pc \notin {"idle", "done", "failed"}

\* The committed rows that call t has updated and not committed.
Locked(t) == {w[1] : w \in tx[t].writes}

\* The table as the statements of call t see it.
OwnView(t) ==
    (store \ Locked(t)) \cup {w[2] : w \in tx[t].writes} \cup tx[t].inserts

\* The call has thrown: the transaction is rolled back.
Thrown(t, err) ==
    [tx[t] EXCEPT !.pc = "failed", !.err = err, !.latestRow = NoRow,
                  !.snapshot = {}, !.writes = {}, !.inserts = {}]

txVars ==
    <<idType, cur, last, logging, log, late, requestQueue, runtime, rpc, pg,
      before>>

\* update({ checkpoint, id, data }) is called while no awaited call is in
\* progress: the first call for any id, the second one for the same id
\* while the first is in progress.
TxBegin(t) ==
    /\ last = Idle
    /\ tx[t].pc = "idle"
    /\ \A o \in Transactions : o < t => InProgress(o)
    /\ \A o \in Transactions : o > t => tx[o].pc = "idle"
    /\ \E id \in Ids, data \in UpdateData :
        /\ \A o \in Transactions : o < t => id = tx[o].id
        /\ tx' = [tx EXCEPT ![t] = [IdleTx EXCEPT !.pc = "select",
                                                  !.id = id,
                                                  !.data = data]]
    /\ UNCHANGED <<store, txVars>>

\* The select of the latest version and the tests on it.
TxSelect(t) ==
    /\ tx[t].pc = "select"
    /\ LET encodedCheckpoint == encodeCheckpoint(cur)
           latestRows == LatestRows(store, tx[t].id)
       IN  IF latestRows = {}
           THEN tx' = [tx EXCEPT ![t] = Thrown(t, "NoResultError")]
           ELSE \E latestRow \in latestRows :
                IF TextLess(encodedCheckpoint,
                            latestRow.effectiveFromCheckpoint)
                THEN tx' = [tx EXCEPT ![t] =
                        Thrown(t, "Cannot update a record in the past")]
                ELSE tx' = [tx EXCEPT
                        ![t].latestRow = latestRow,
                        ![t].path =
                            IF latestRow.effectiveFromCheckpoint
                                    = encodedCheckpoint
                            THEN "squash" ELSE "close",
                        ![t].pc = "update"]
    /\ UNCHANGED <<store, txVars>>

\* The rows the UPDATE of call t is for, and what it sets.
TxWhere(t, r) ==
    /\ IdWhere(r, tx[t].id)
    /\ IF tx[t].path = "squash"
       THEN r.effectiveFromCheckpoint = encodeCheckpoint(cur)
       ELSE r.effectiveToCheckpoint = latest

TxObj(t) ==
    IF tx[t].data.kind = "function"
    THEN ApplyFn(deserializeRow(tx[t].latestRow))
    ELSE tx[t].data.obj

TxSet(t, r) ==
    IF tx[t].path = "squash"
    THEN SetColumns(r, tx[t].id, TxObj(t))
    ELSE [r EXCEPT !.effectiveToCheckpoint = encodeCheckpoint(cur)]

\* The UPDATE is applied to the rows matched.
TxApply(t, matched) ==
    LET changed == {TxSet(t, r) : r \in matched}
    IN  IF ~PkOk(store, matched, changed)
        THEN tx' = [tx EXCEPT ![t] = Thrown(t, "UniqueViolation")]
        ELSE IF tx[t].path = "squash" /\ matched = {}
        THEN tx' = [tx EXCEPT ![t] = Thrown(t, "NoResultError")]
        ELSE tx' = [tx EXCEPT
                ![t].writes = {<<r, TxSet(t, r)>> : r \in matched},
                ![t].snapshot = {},
                ![t].pc = IF tx[t].path = "squash" THEN "commit"
                          ELSE "insert"]

\* The UPDATE statement: where a row it matches is written by another
\* transaction in progress it waits, with the rows it has matched.
TxUpdate(t) ==
    /\ tx[t].pc = "update"
    /\ LET matched == {r \in store : TxWhere(t, r)}
       IN  IF \E o \in Transactions \ {t} : matched \cap Locked(o) # {}
           THEN tx' = [tx EXCEPT ![t].pc = "waiting",
                                 ![t].snapshot = matched]
           ELSE TxApply(t, matched)
    /\ UNCHANGED <<store, txVars>>

\* The transaction waited for has ended: the rows matched are looked at
\* again as they are now, and the UPDATE is applied to those that still
\* match.
TxResume(t) ==
    /\ tx[t].pc = "waiting"
    /\ \A o \in Transactions \ {t} : tx[t].snapshot \cap Locked(o) = {}
    /\ TxApply(t, {r \in tx[t].snapshot : r \in store /\ TxWhere(t, r)})
    /\ UNCHANGED <<store, txVars>>

\* The INSERT of the new version: it waits while a transaction in progress
\* has written a row with its key.
TxInsert(t) ==
    /\ tx[t].pc = "insert"
    /\ LET merged == SetColumns(tx[t].latestRow, tx[t].id, TxObj(t))
           row == Version(merged.id, merged.v, encodeCheckpoint(cur), latest)
           error == InsertError(OwnView(t), row.id, [v |-> row.v], latest)
       IN  /\ \A o \in Transactions \ {t} :
                /\ \A r \in tx[o].inserts : ~SamePk(r, row)
                /\ \A r \in Locked(o) : ~SamePk(r, row)
           /\ IF error # ""
              THEN tx' = [tx EXCEPT ![t] = Thrown(t, error)]
              ELSE tx' = [tx EXCEPT ![t].inserts = {row},
                                    ![t].pc = "commit"]
    /\ UNCHANGED <<store, txVars>>

\* COMMIT: the writes of call t become the committed rows; a statement
\* that waits for them finds the new versions of the rows it has matched.
TxCommit(t) ==
    /\ tx[t].pc = "commit"
    /\ store' = OwnView(t)
    /\ tx' = [o \in Transactions |->
                IF o = t
                THEN [tx[t] EXCEPT !.pc = "done", !.latestRow = NoRow,
                                   !.writes = {}, !.inserts = {}]
                ELSE [tx[o] EXCEPT !.snapshot =
                        (@ \ Locked(t))
                            \cup {w[2] : w \in {w \in tx[t].writes :
                                                    w[1] \in @}}]]
    /\ UNCHANGED txVars

\* No update call has been made without awaiting the one before.
TxQuiet == \A t \in Transactions : tx[t].pc = "idle"

Awaited ==
    /\ TxQuiet
    /\ \/ Create
       \/ Advance
       \/ Return

\* Awaited calls build the table; then update calls are made that overlap.
NextOverlap ==
    \/ Awaited
    \/ \E t \in Transactions : TxBegin(t)
    \/ \E t \in Transactions : TxSelect(t)
    \/ \E t \in Transactions : TxUpdate(t)
    \/ \E t \in Transactions : TxResume(t)
    \/ \E t \in Transactions : TxInsert(t)
    \/ \E t \in Transactions : TxCommit(t)

InitOverlap ==
    /\ store = {}
    /\ idType = "string"
    /\ cur = FirstCheckpoint
    /\ last = Idle
    /\ logging = FALSE
    /\ log = <<>>
    /\ late = FALSE
    /\ requestQueue = createRequestQueue(1)
    /\ runtime = Started
    /\ rpc = NoRequests
    /\ pg = Constructed
    /\ before = NoSnapshots
    /\ tx = [t \in Transactions |-> IdleTx]

SpecOverlap == InitOverlap /\ [][NextOverlap]_vars

\* The database executes every statement it is sent and the callers go on
\* after each await, so a step that stays possible is eventually taken.
SpecOverlapFair == InitOverlap /\ [][NextOverlap]_vars /\ WF_vars(NextOverlap)

InitRpc ==
    /\ store = {}
    /\ idType = "string"
    /\ cur = FirstCheckpoint
    /\ last = Idle
    /\ logging = FALSE
    /\ log = <<>>
    /\ late = FALSE
    /\ requestQueue = createRequestQueue(1)
    /\ runtime = Started
    /\ rpc = NoRequests
    /\ pg = Constructed
    /\ before = NoSnapshots
    /\ tx = NoTransactions

\* The calls of the cached transport, each awaited before the next.
NextRpc ==
    \/ RpcRequestInTurn
    \/ RpcLookup
    \/ RpcFetch
    \/ RpcInsert

SpecRpc == InitRpc /\ [][NextRpc]_vars

RpcRequestOverlapping == RpcRequest(TRUE)

\* The calls of the cached transport made without waiting for one another.
NextRpcOverlap ==
    \/ RpcRequestOverlapping
    \/ RpcLookup
    \/ RpcFetch
    \/ RpcInsert

SpecRpcOverlap == InitRpc /\ [][NextRpcOverlap]_vars

\* A table whose id column has type bytes.
clientVars ==
    <<store, idType, cur, last, logging, log, late, requestQueue, runtime,
      rpc, before, tx>>

Reload ==
    \E k \in Stores, schema \in Schemas \cup {undefined} :
        /\ pg.calls < MaxNamespaceCalls
        /\ pg' = [reload(pg, k, schema) EXCEPT !.calls = @ + 1]
        /\ UNCHANGED clientVars

\* The select from pg_namespace has no order by: its rows come in any
\* order.
Publish ==
    \E k \in Stores, rows \in Orders(pg.pg_namespace) :
        /\ pg.calls < MaxNamespaceCalls
        /\ pg' = [publish(pg, k, rows) EXCEPT !.calls = @ + 1]
        /\ UNCHANGED clientVars

\* A drop that a publish has left behind runs, on its own, after the
\* transaction of that publish has ended.
DropRuns ==
    \E nspname \in pg.drops :
        /\ pg' = dropSchema(pg, nspname)
        /\ UNCHANGED clientVars

\* A write of instance k that leaves a version in one of its tables.
WriteVersion ==
    \E k \in Stores, version \in TableVersions, t \in pg.tables :
        /\ t.nspname = databaseSchemaName(k)
        /\ t.table \in Tables(pg.stores[k].schema)
        /\ version \notin t.rows
        /\ pg.calls < MaxNamespaceCalls
        /\ pg' = [pg EXCEPT
                    !.calls = @ + 1,
                    !.tables = (@ \ {t})
                        \cup {[t EXCEPT !.rows = @ \cup {version}]},
                    !.returned = Returned("create", k, TRUE)]
        /\ UNCHANGED clientVars

FindUniquePublic ==
    \E k \in Stores :
        /\ pg.calls < MaxNamespaceCalls
        /\ pg' = [findUniquePublic(pg, k) EXCEPT !.calls = @ + 1]
        /\ UNCHANGED clientVars

HandlePublishedSchema ==
    \E notification \in pg.notifications :
        /\ pg' = handlePublishedSchema(pg, notification)
        /\ UNCHANGED clientVars

NextNamespace ==
    \/ Reload
    \/ Publish
    \/ WriteVersion
    \/ FindUniquePublic
    \/ HandlePublishedSchema
    \/ DropRuns

\* The namespace that an earlier run has left in the database.
Earlier == {databaseSchemaName(0)}

\* The instances of the store on one database, constructed and not yet
\* reloaded; the database has the namespace of an earlier run.
InitNamespace ==
    /\ store = {}
    /\ idType = "string"
    /\ cur = FirstCheckpoint
    /\ last = Idle
    /\ logging = FALSE
    /\ log = <<>>
    /\ late = FALSE
    /\ requestQueue = createRequestQueue(1)
    /\ runtime = Started
    /\ rpc = NoRequests
    /\ pg = [Constructed EXCEPT !.pg_namespace = Earlier]
    /\ before = NoSnapshots
    /\ tx = NoTransactions

SpecNamespace == InitNamespace /\ [][NextNamespace]_vars

InitBytes ==
    /\ store = {}
    /\ idType = "bytes"
    /\ cur = FirstCheckpoint
    /\ last = Idle
    /\ logging = FALSE
    /\ log = <<>>
    /\ late = FALSE
    /\ requestQueue = createRequestQueue(1)
    /\ runtime = Started
    /\ rpc = NoRequests
    /\ pg = Constructed
    /\ before = NoSnapshots
    /\ tx = NoTransactions

NextBytes ==
    \/ Advance
    \/ Create
    \/ Update
    \/ Delete
    \/ Return

SpecBytes == InitBytes /\ [][NextBytes]_vars

(***************************************************************************)
(* Properties of the version chains.                                       *)
(***************************************************************************)
VersionsOf(tbl, id) == {r \in tbl : r.id = id}

CurrentOf(tbl, id) ==
    {r \in tbl : r.id = id /\ r.effectiveToCheckpoint = latest}

\* r2 is the version that follows r1 in effectiveFromCheckpoint order.
Adjacent(tbl, r1, r2) ==
    /\ r1.id = r2.id
    /\ TextLess(r1.effectiveFromCheckpoint, r2.effectiveFromCheckpoint)
    /\ ~\E r \in tbl :
            /\ r.id = r1.id
            /\ TextLess(r1.effectiveFromCheckpoint, r.effectiveFromCheckpoint)
            /\ TextLess(r.effectiveFromCheckpoint, r2.effectiveFromCheckpoint)

\* The encoded text of every checkpoint.
EncodedCheckpoints == [c \in Checkpoints |-> encodeCheckpoint(c)]

\* The version is valid at checkpoint c.
ValidAt(r, c) ==
    /\ TextLeq(r.effectiveFromCheckpoint, EncodedCheckpoints[c])
    /\ \/ r.effectiveToCheckpoint = latest
       \/ TextLess(EncodedCheckpoints[c], r.effectiveToCheckpoint)

\* C1: with ids compared exactly, after any sequence of successful or
\* failed create, createMany, update, updateMany, upsert, delete and revert
\* calls at non-decreasing checkpoints, each id has at most one version
\* whose effectiveToCheckpoint is "latest".
C1_AtMostOneLatest ==
    idType = "string" =>
        \A id \in Ids : Cardinality(CurrentOf(store, id)) <= 1

\* A create was refused because the id already had its current version.
C1_Witness ==
    /\ last.op = "create"
    /\ ~last.ok
    /\ last.err = "UniqueViolation"
    /\ Cardinality(CurrentOf(store, last.id)) = 1
    /\ Cardinality(VersionsOf(store, last.id)) >= 2

\* C2 as stated: the versions of one id form a contiguous chain, the
\* effectiveToCheckpoint of a version equals the effectiveFromCheckpoint of
\* the version that follows it.
C2_Contiguous ==
    \A r1 \in store : \A r2 \in store :
        Adjacent(store, r1, r2) =>
            r1.effectiveToCheckpoint = r2.effectiveFromCheckpoint

GapFree(tbl, id) ==
    LET versions == VersionsOf(tbl, id)
    IN  \A r1 \in versions : \A r2 \in versions :
            (/\ TextLess(r1.effectiveFromCheckpoint, r2.effectiveFromCheckpoint)
             /\ r1.effectiveToCheckpoint # r2.effectiveFromCheckpoint) =>
                \E r \in versions :
                    /\ TextLess(r1.effectiveFromCheckpoint,
                                r.effectiveFromCheckpoint)
                    /\ TextLess(r.effectiveFromCheckpoint,
                                r2.effectiveFromCheckpoint)

\* C2 amended: a version is closed no later than any later version of its
\* id starts, and the chain of an id stops being contiguous only in a
\* create, createMany or upsert call that creates anew, at a checkpoint
\* later than its deletion, an id that has versions but no current one.
C2_ContiguousButForRecreate ==
    /\ [](\A r1 \in store : \A r2 \in store :
            (/\ r1.id = r2.id
             /\ TextLess(r1.effectiveFromCheckpoint,
                         r2.effectiveFromCheckpoint)) =>
                /\ r1.effectiveToCheckpoint # latest
                /\ TextLeq(r1.effectiveToCheckpoint, r2.effectiveFromCheckpoint))
    /\ [][\A id \in Ids :
            (/\ store' # store
             /\ VersionsOf(store', id) # VersionsOf(store, id)
             /\ ~GapFree(store', id)
             /\ GapFree(store, id)) =>
                /\ last'.op \in {"create", "createMany", "upsert"}
                /\ VersionsOf(store, id) # {}
                /\ CurrentOf(store, id) = {}
                /\ \A r \in VersionsOf(store, id) :
                        TextLess(r.effectiveToCheckpoint, encodeCheckpoint(cur))
                /\ \E r \in store' \ store :
                        /\ r.id = id
                        /\ r.effectiveFromCheckpoint = encodeCheckpoint(cur)
                        /\ r.effectiveToCheckpoint = latest]_vars

\* An id was deleted and created again later: its chain has a gap.
C2_Witness ==
    \E r1 \in store : \E r2 \in store :
        /\ Adjacent(store, r1, r2)
        /\ TextLess(r1.effectiveToCheckpoint, r2.effectiveFromCheckpoint)
        /\ r2.effectiveToCheckpoint = latest

\* C3: every version has effectiveFromCheckpoint < effectiveToCheckpoint
\* ("latest" above every checkpoint), the validity intervals of the
\* versions of one id are pairwise disjoint, and so at most one version of
\* an id is valid at any checkpoint.
C3_DisjointIntervals ==
    /\ \A r \in store :
            TextLess(r.effectiveFromCheckpoint, r.effectiveToCheckpoint)
    /\ \A r1 \in store : \A r2 \in store :
            (r1 # r2 /\ r1.id = r2.id) =>
                \/ /\ r1.effectiveToCheckpoint # latest
                   /\ TextLeq(r1.effectiveToCheckpoint, r2.effectiveFromCheckpoint)
                \/ /\ r2.effectiveToCheckpoint # latest
                   /\ TextLeq(r2.effectiveToCheckpoint, r1.effectiveFromCheckpoint)
    /\ \A c \in Checkpoints : \A id \in Ids :
            Cardinality({r \in store : r.id = id /\ ValidAt(r, c)}) <= 1

\* An id has a closed version, a current one, and a delete just closed a
\* version of the other id.
C3_Witness ==
    /\ last.op = "delete"
    /\ last.flag
    /\ \E r \in store :
            /\ r.id = last.id
            /\ r.effectiveToCheckpoint = encodeCheckpoint(cur)
    /\ \E r1 \in store : \E r2 \in store :
            /\ r1.id # last.id
            /\ Adjacent(store, r1, r2)
            /\ r2.effectiveToCheckpoint = latest

(***************************************************************************)
(* The reference implementation over the operation log: a map from id to   *)
(* the row of the id, <<>> for an id that has none.                        *)
(***************************************************************************)
RefEmpty == [id \in Ids |-> <<>>]

RefPatch(row, data) ==
    LET obj == IF data.kind = "function" THEN ApplyFn(row) ELSE data.obj
    IN  [row EXCEPT !.v = IF "v" \in DOMAIN obj THEN obj.v ELSE row.v]

RefChunkOk(m, chunk) ==
    /\ \A j \in 1 .. Len(chunk) :
            "v" \in DOMAIN chunk[j].obj /\ m[chunk[j].id] = <<>>
    /\ \A j \in 1 .. Len(chunk) : \A k \in 1 .. Len(chunk) :
            j # k => chunk[j].id # chunk[k].id

\* The chunks in input order, each inserted whole or not at all.
RECURSIVE RefChunks(_, _, _)
RefChunks(m, data, k) ==
    LET chunk == Chunk(data, k)
        rowOf(id) ==
            LET j == CHOOSE j \in 1 .. Len(chunk) : chunk[j].id = id
            IN  <<[id |-> id, v |-> chunk[j].obj.v]>>
    IN  IF k > NumChunks(data) THEN m
        ELSE IF ~RefChunkOk(m, chunk) THEN RefChunks(m, data, k + 1)
        ELSE RefChunks(
                [id \in Ids |->
                    IF \E j \in 1 .. Len(chunk) : chunk[j].id = id
                    THEN rowOf(id) ELSE m[id]],
                data, k + 1)

RefCreate(m, id, obj) ==
    IF m[id] # <<>> \/ "v" \notin DOMAIN obj THEN m
    ELSE [m EXCEPT ![id] = <<[id |-> id, v |-> obj.v]>>]

RefUpdate(m, id, data) ==
    IF m[id] = <<>> THEN m
    ELSE [m EXCEPT ![id] = <<RefPatch(m[id][1], data)>>]

RefApply(m, e) ==
    CASE e.op = "create" -> RefCreate(m, e.id, e.obj)
      [] e.op = "createMany" -> RefChunks(m, e.rows, 1)
      [] e.op = "update" -> RefUpdate(m, e.id, e.data)
      [] e.op = "updateMany" ->
            [id \in Ids |->
                IF m[id] = <<>> THEN m[id]
                ELSE IF WhereMatches(e.obj, m[id][1])
                THEN <<RefPatch(m[id][1], e.data)>>
                ELSE m[id]]
      [] e.op = "upsert" ->
            IF m[e.id] = <<>> THEN RefCreate(m, e.id, e.obj)
            ELSE RefUpdate(m, e.id, e.data)
      [] e.op = "delete" -> [m EXCEPT ![e.id] = <<>>]

\* The operations lg[k], lg[k+1], ... whose checkpoint is at most c.
RECURSIVE RefFrom(_, _, _, _)
RefFrom(m, lg, k, c) ==
    IF k > Len(lg) THEN m
    ELSE RefFrom(IF lg[k].c <= c THEN RefApply(m, lg[k]) ELSE m, lg, k + 1, c)

\* C4: for a log of writes at non-decreasing checkpoints, findUnique at a
\* checkpoint c returns the row the reference implementation holds after
\* the operations of the log whose checkpoint is at most c, and findUnique
\* at "latest" the row it holds after the whole log.
C4_FindUniqueMatchesReference ==
    logging =>
        \A id \in Ids :
            /\ findUnique(store, id, AtLatest) =
                    {RefFrom(RefEmpty, log, 1, cur)[id]}
            /\ \A c \in Checkpoints :
                    findUnique(store, id, At(c)) =
                        {RefFrom(RefEmpty, log, 1, c)[id]}

\* The store method a log entry records, on table tbl.
ApplyEntry(tbl, e) ==
    CASE e.op = "create" -> create(tbl, e.c, e.id, e.obj)
      [] e.op = "createMany" -> createMany(tbl, e.c, e.rows)
      [] e.op = "update" -> update(tbl, e.c, e.id, e.data)
      [] e.op = "updateMany" -> updateMany(tbl, e.c, e.obj, e.data)
      [] e.op = "upsert" -> upsert(tbl, e.c, e.id, e.obj, e.data)
      [] e.op = "delete" -> delete(tbl, e.c, e.id)

\* The tables left by applying again, in order, the operations lg[k],
\* lg[k+1], ... whose checkpoint is at least cs.
RECURSIVE Replay(_, _, _, _)
Replay(tbls, lg, k, cs) ==
    IF k > Len(lg) THEN tbls
    ELSE Replay(IF lg[k].c >= cs
                THEN UNION {{o.tbl : o \in ApplyEntry(t, lg[k])} : t \in tbls}
                ELSE tbls,
                lg, k + 1, cs)

\* C5: for a store built by the writes of the log and any checkpoint cs,
\* revert(cs) followed by the operations of the log whose checkpoint is at
\* least cs, in their order, gives back the store as it was.
C5_RevertThenReplay ==
    logging =>
        \A cs \in Checkpoints :
            Replay({o.tbl : o \in revert(store, cs)}, log, 1, cs) = {store}

\* C6: a second revert to the same checkpoint fails or succeeds as the
\* first did and leaves the store the first one left.
C6_RevertIdempotent ==
    last.op = "revert" =>
        \A o \in revert(store, last.c) : o.ok = last.ok /\ o.tbl = store

\* A revert has removed or reopened versions and left some in the store.
C6_Witness ==
    /\ last.op = "revert"
    /\ last.ok
    /\ last.flag
    /\ \E r \in store :
            /\ r.effectiveToCheckpoint = latest
            /\ TextLess(r.effectiveFromCheckpoint, encodeCheckpoint(last.c))

\* C7: an update, upsert or updateMany call at the effectiveFromCheckpoint
\* of the current version of an id leaves the id with as many versions as
\* before, its current version still from that checkpoint to "latest", and
\* its other versions as they were.
C7_Squash ==
    [][last'.op \in {"update", "upsert", "updateMany"} =>
        \A id \in Ids : \A r \in CurrentOf(store, id) :
            r.effectiveFromCheckpoint = EncodedCheckpoints[cur] =>
                /\ Cardinality(VersionsOf(store', id)) =
                        Cardinality(VersionsOf(store, id))
                /\ \E r2 \in CurrentOf(store', id) :
                        /\ r2.effectiveFromCheckpoint = EncodedCheckpoints[cur]
                        /\ VersionsOf(store', id) \ {r2} =
                                VersionsOf(store, id) \ {r}]_vars

\* An update succeeded and the id has the one version created at the same
\* checkpoint.
C7_Witness ==
    /\ last.op = "update"
    /\ last.ok
    /\ \E r \in store :
            /\ VersionsOf(store, last.id) = {r}
            /\ r.effectiveFromCheckpoint = encodeCheckpoint(cur)
            /\ r.effectiveToCheckpoint = latest

\* C8: delete at the effectiveFromCheckpoint of the current version of the
\* id removes that version and nothing else: after create and delete at
\* one checkpoint the id has no version.
C8_DeleteSameCheckpoint ==
    [][last'.op = "delete" =>
        \A r \in CurrentOf(store, last'.id) :
            r.effectiveFromCheckpoint = EncodedCheckpoints[cur] =>
                last'.ok /\ store' = store \ {r}]_vars

\* A delete removed the only version of its id, the other id keeps one.
C8_Witness ==
    /\ last.op = "delete"
    /\ last.ok
    /\ last.flag
    /\ VersionsOf(store, last.id) = {}
    /\ store # {}

\* C9: delete at c2 of an id whose one version was created at c1 < c2
\* leaves the one version [c1, c2) with its data; findUnique then returns
\* null at "latest" and at every c >= c2, the row at every c1 <= c < c2.
C9_DeleteLater ==
    [][last'.op = "delete" =>
        \A c1 \in Checkpoints : \A v \in Values :
            (/\ c1 < cur
             /\ VersionsOf(store, last'.id) =
                    {Version(last'.id, v, encodeCheckpoint(c1), latest)}) =>
                /\ VersionsOf(store', last'.id) =
                        {Version(last'.id, v, encodeCheckpoint(c1),
                                 encodeCheckpoint(cur))}
                /\ findUnique(store', last'.id, AtLatest) = {<<>>}
                /\ \A c \in Checkpoints :
                        findUnique(store', last'.id, At(c)) =
                            IF c1 <= c /\ c < cur
                            THEN {<<[id |-> last'.id, v |-> v]>>}
                            ELSE {<<>>}]_vars

\* A delete closed, at a later checkpoint, the one version of its id.
C9_Witness ==
    /\ last.op = "delete"
    /\ last.flag
    /\ \E c1 \in Checkpoints : \E v \in Values :
            /\ c1 < cur
            /\ VersionsOf(store, last.id) =
                    {Version(last.id, v, encodeCheckpoint(c1),
                             encodeCheckpoint(cur))}

\* C10: at non-decreasing checkpoints delete raises no error and returns
\* true exactly when the id had a current version; without one it leaves
\* the store as it was.
C10_DeleteResult ==
    [][last'.op = "delete" =>
        /\ last'.ok
        /\ last'.flag <=> (CurrentOf(store, last'.id) # {})
        /\ CurrentOf(store, last'.id) = {} => store' = store]_vars

\* A delete of an id that has versions, none of them current, returned
\* false.
C10_Witness ==
    /\ last.op = "delete"
    /\ last.ok
    /\ ~last.flag
    /\ VersionsOf(store, last.id) # {}
    /\ CurrentOf(store, last.id) = {}

\* C11: update of an id that has no current version, never created or
\* deleted, fails with the not-found error and leaves the store as it was.
C11_UpdateNotFound ==
    [][(last'.op = "update" /\ CurrentOf(store, last'.id) = {}) =>
        /\ ~last'.ok
        /\ last'.err = "NoResultError"
        /\ store' = store]_vars

\* An update of a deleted id was refused: the id has versions, none current.
C11_Witness ==
    /\ last.op = "update"
    /\ last.err = "NoResultError"
    /\ VersionsOf(store, last.id) # {}
    /\ CurrentOf(store, last.id) = {}

\* The call was refused as a write in the past and changed nothing.
PastWriteRejected(o) ==
    /\ ~o.ok
    /\ o.err = "Cannot update a record in the past"
    /\ o.tbl = store

\* The current version of the id starts after checkpoint c.
CurrentStartsAfter(tbl, id, c) ==
    \E r \in CurrentOf(tbl, id) :
        TextLess(EncodedCheckpoints[c], r.effectiveFromCheckpoint)

C13_DeletePastWrite ==
    [][(last'.op = "delete" /\ CurrentStartsAfter(store, last'.id, cur)) =>
        /\ ~last'.ok
        /\ store' = store
        /\ \A r \in store' :
                TextLess(r.effectiveFromCheckpoint, r.effectiveToCheckpoint)]_vars

\* C14: create of an id that has a current version fails and changes
\* nothing; of an id that has none it adds the one version from the
\* checkpoint of the call to "latest" and changes no other version, unless
\* the database refuses the row for a column without value.
C14_Create ==
    [][last'.op = "create" =>
        IF CurrentOf(store, last'.id) # {}
        THEN ~last'.ok /\ store' = store
        ELSE IF ~last'.ok
        THEN last'.err = "NotNullViolation" /\ store' = store
        ELSE \E r \in store' \ store :
                /\ store' = store \cup {r}
                /\ r.id = last'.id
                /\ r.effectiveFromCheckpoint = EncodedCheckpoints[cur]
                /\ r.effectiveToCheckpoint = latest]_vars

\* A create gave a deleted id a new current version next to the closed one.
C14_Witness ==
    /\ last.op = "create"
    /\ last.ok
    /\ \E r1 \in store : \E r2 \in store :
            /\ VersionsOf(store, last.id) = {r1, r2}
            /\ r1.effectiveToCheckpoint # latest
            /\ r2.effectiveFromCheckpoint = encodeCheckpoint(cur)
            /\ r2.effectiveToCheckpoint = latest

SingleRowUpdates(tbl, c, rows, data) ==
    UNION {update(tbl, c, r.id, data) : r \in rows}

C17_CommittedPrefix ==
    [][(last'.op = "createMany" /\ ~last'.ok) =>
        LET data == log'[Len(log')].rows
        IN  \E n \in 0 .. NumChunks(data) :
                store' = store \cup
                    UNION {ChunkRows(Chunk(data, k), encodeCheckpoint(cur)) :
                              k \in 1 .. n}]_vars

\* C18: in a table with a bytes id, create fails when a current version
\* exists whose id equals the given id but for letter case, and at most one
\* current version exists per id compared so.
C18_BytesIdCaseInsensitive ==
    [][idType = "bytes" =>
        /\ (last'.op = "create" /\ LatestRows(store, last'.id) # {}) =>
                ~last'.ok /\ store' = store
        /\ \A id \in Ids : Cardinality(LatestRows(store', id)) <= 1]_vars

C20_Throughput ==
    runtime.now - StartTime < 10000 =>
        Len(runtime.calls) <=
            requestQueue.maxRequestsPerSecond * 10
                + requestBatchSize(requestQueue.maxRequestsPerSecond)

\* Task k waits in the queue; it has been passed to the transport.
Queued(k) == k \in Range(requestQueue.queue)
Dispatched(k) == k \in Range(runtime.calls)
\* The promise request() returned for task k has settled.
Settled(k) ==
    /\ k <= runtime.submitted
    /\ runtime.promises[k].state # "pending"

\* C21: while the queue stays paused no request is passed to the transport,
\* whatever is called and whichever timer fires, and a request made then is
\* added to the queue and not to the pending count; a request waiting in a
\* started queue is dispatched unless the queue is paused again or cleared,
\* and the promise of a dispatched request settles.
C21_Paused ==
    /\ [][(~requestQueue.on /\ ~requestQueue'.on) =>
            /\ runtime'.calls = runtime.calls
            /\ requestQueue'.pending <= requestQueue.pending
            /\ runtime'.submitted # runtime.submitted =>
                    /\ requestQueue'.queue =
                            Append(requestQueue.queue, runtime'.submitted)
                    /\ requestQueue'.pending = requestQueue.pending]_vars
    /\ \A k \in 1 .. MaxLiveRequests :
            (requestQueue.on /\ Queued(k)) ~>
                (Dispatched(k) \/ ~requestQueue.on \/ ~Queued(k))
    /\ \A k \in 1 .. MaxLiveRequests :
            Dispatched(k) ~> Settled(k)

\* A paused queue holds a request made during the pause, after the timer
\* armed by an earlier dispatch has fired.
C21_Witness ==
    /\ ~requestQueue.on
    /\ requestQueue.queue = <<2>>
    /\ runtime.calls = <<1>>
    /\ ~requestQueue.timing
    /\ requestQueue.pending = 0

\* Task k was removed from the queue by clear().
Dropped(k) ==
    /\ k <= runtime.submitted
    /\ ~Queued(k)
    /\ ~Dispatched(k)

\* C22: a step that removes tasks from the queue without passing them to
\* the transport, a clear(), leaves the pending count, the tasks in flight
\* and every promise as they are; a task removed so is never passed to the
\* transport; and a task in flight settles with what the transport answers
\* to its call, or stays in flight.
C22_Clear ==
    [][/\ (runtime'.calls = runtime.calls
            /\ Len(requestQueue'.queue) < Len(requestQueue.queue)) =>
                /\ requestQueue'.queue = <<>>
                /\ requestQueue'.pending = requestQueue.pending
                /\ runtime'.inflight = runtime.inflight
                /\ runtime'.promises = runtime.promises
       /\ \A k \in 1 .. runtime.submitted : Dropped(k) => Dropped(k)'
       /\ \A k \in runtime.inflight :
            IF k \in runtime'.inflight
            THEN runtime'.promises[k] = Unsettled
            ELSE /\ runtime'.promises[k] = runtime'.answers[k]
                 /\ runtime'.promises[k].state \in {"resolved", "rejected"}
      ]_vars

\* After a clear() that dropped task 2 with task 1 in flight, task 1 has
\* settled.
C22_Witness ==
    /\ runtime.calls = <<1>>
    /\ runtime.submitted = 2
    /\ requestQueue.queue = <<>>
    /\ requestQueue.lastRequestTime = 0
    /\ runtime.promises[1].state = "resolved"
    /\ runtime.promises[2].state = "pending"

\* The transport has answered the call of task k with an error.
Failed(k) ==
    /\ k <= runtime.submitted
    /\ runtime.answers[k].state = "rejected"

\* C23: the step in which the transport answers the call of a task with an
\* error rejects the promise of that task with that error and changes no
\* other promise, nor the queue, the timers and the switches of the
\* scheduler; after it the requests that wait in a started queue are still
\* dispatched, and those in flight still settle.
C23_TransportError ==
    /\ [][\A k \in 1 .. runtime.submitted :
            (~Failed(k) /\ Failed(k)') =>
                /\ runtime'.promises[k] = runtime'.answers[k]
                /\ runtime'.promises[k].value = "RpcRequestError"
                /\ \A j \in 1 .. runtime.submitted :
                        j # k => /\ runtime'.promises[j] = runtime.promises[j]
                                 /\ runtime'.answers[j] = runtime.answers[j]
                /\ runtime'.inflight = runtime.inflight \ {k}
                /\ runtime'.timers = runtime.timers
                /\ runtime'.calls = runtime.calls
                /\ requestQueue' =
                        [requestQueue EXCEPT !.pending = @ - 1]]_vars
    /\ \A j, k \in 1 .. MaxLiveRequests :
            (Failed(j) /\ requestQueue.on /\ Queued(k)) ~>
                (Dispatched(k) \/ ~requestQueue.on \/ ~Queued(k))
    /\ \A j, k \in 1 .. MaxLiveRequests :
            (Failed(j) /\ k \in runtime.inflight) ~>
                (Settled(k) /\ runtime.promises[k] = runtime.answers[k])

\* The first request was rejected and the second, dispatched after it, was
\* resolved.
C23_Witness ==
    /\ runtime.calls = <<1, 2>>
    /\ runtime.promises[1].state = "rejected"
    /\ runtime.promises[2].state = "resolved"

InFlight(k) == k \in runtime.inflight

\* C24: size() is the number of requests submitted and neither dispatched
\* nor dropped, pending() the number of requests dispatched and not
\* settled, never negative; every submitted request is in exactly one of
\* the states queued, in flight, settled and dropped.
C24_SizeAndPending ==
    LET submitted == 1 .. runtime.submitted
    IN  /\ size = Cardinality({k \in submitted :
                                  ~Dispatched(k) /\ ~Dropped(k)})
        /\ pending = Cardinality({k \in submitted :
                                     Dispatched(k) /\ ~Settled(k)})
        /\ pending >= 0
        /\ Range(requestQueue.queue) \cup Range(runtime.calls) \subseteq submitted
        /\ \A k \in submitted :
                /\ Queued(k) \/ InFlight(k) \/ Settled(k) \/ Dropped(k)
                /\ ~(Queued(k) /\ InFlight(k))
                /\ ~(Queued(k) /\ Settled(k))
                /\ ~(Queued(k) /\ Dropped(k))
                /\ ~(InFlight(k) /\ Settled(k))
                /\ ~(InFlight(k) /\ Dropped(k))
                /\ ~(Settled(k) /\ Dropped(k))
                /\ InFlight(k) => Dispatched(k)
                /\ Settled(k) => Dispatched(k)

\* Four requests, one in each state: settled, dropped, in flight, queued.
C24_Witness ==
    /\ runtime.submitted = 4
    /\ Settled(1)
    /\ Dropped(2)
    /\ InFlight(3)
    /\ Queued(4)
    /\ size = 1
    /\ pending = 1

(***************************************************************************)
(* Properties of the cached transport.                                     *)
(***************************************************************************)
\* Two calls of a cached method with the same cache entry.
SameEntry(c1, c2) ==
    /\ c1.method \in cachedMethods
    /\ c1.method = c2.method
    /\ c1.chainId = c2.chainId
    /\ c1.blockNumber = c2.blockNumber
    /\ c1.request = c2.request

\* C25: a call of a cached method made after a call with the same chainId,
\* block number and key has returned does not call the underlying
\* transport and returns what the first returned.
C25_CacheHit ==
    \A j \in 1 .. Len(rpc.calls) : \A i \in rpc.calls[j].after :
        SameEntry(rpc.calls[i], rpc.calls[j]) =>
            /\ ~rpc.calls[j].fetched
            /\ rpc.calls[j].pc = "returned" =>
                    rpc.calls[j].result = rpc.calls[i].result

\* C26: the cache changes only in the step in which a call of a cached
\* method stores the answer it has received from the underlying transport;
\* a call of another method never reads the cache and ends only after it
\* has called the underlying transport, with the transport's answer; a call
\* that fails leaves the cache as it is and throws the transport's error.
C26_CacheWrites ==
    [][/\ rpc'.cache # rpc.cache =>
            \E i \in 1 .. Len(rpc.calls) :
                /\ rpc.calls[i].method \in cachedMethods
                /\ rpc.calls[i].fetched
                /\ rpc.calls[i].pc = "insert"
                /\ rpc'.calls[i].pc = "returned"
                /\ rpc'.cache =
                        insertRpcRequestResult(
                            rpc.cache, rpc.calls[i].chainId,
                            rpc.calls[i].blockNumber, rpc.calls[i].request,
                            rpc.calls[i].response)
       /\ \A i \in 1 .. Len(rpc'.calls) :
            /\ rpc'.calls[i].method \notin cachedMethods =>
                    /\ ~rpc'.calls[i].read
                    /\ ~Running(rpc'.calls[i]) => rpc'.calls[i].fetched
                    /\ rpc'.calls[i].pc = "returned" =>
                            rpc'.calls[i].result = rpc'.calls[i].response
            /\ rpc'.calls[i].pc = "failed" =>
                    /\ rpc'.calls[i].error = "RpcRequestError"
                    /\ rpc'.calls[i].fetched
                    /\ (i <= Len(rpc.calls) /\ rpc.calls[i].pc # "failed") =>
                            rpc'.cache = rpc.cache]_vars

\* A call of a method that is not cached has returned the transport's
\* answer with the cache empty, and a call of a cached method has failed.
C26_Witness ==
    /\ Len(rpc.calls) = 2
    /\ rpc.calls[1].method = "eth_chainId"
    /\ rpc.calls[1].pc = "returned"
    /\ rpc.calls[1].result = "0x1"
    /\ rpc.calls[2].method = "eth_getBalance"
    /\ rpc.calls[2].pc = "failed"
    /\ rpc.cache = {}
    /\ rpc.roundTrips = 2

(***************************************************************************)
(* Properties of the namespaces.                                           *)
(***************************************************************************)
\* The step is a call of the method by instance k.
Calls(method, k) ==
    /\ pg'.calls = pg.calls + 1
    /\ pg'.returned.method = method
    /\ pg'.returned.store = k

\* The versions of <table>_versioned in the namespace, where it exists.
PrivateRows(d, nspname, table) ==
    UNION {t.rows : t \in {t \in d.tables :
                              t.nspname = nspname /\ t.table = table}}

\* C27: publish() is one transition.  When it succeeds, the row of the
\* run's namespace has is_published = true, no row of a strictly older
\* namespace is left, and the schema public has for every table of the run
\* a view <table>_versioned that shows all its versions and a view <table>
\* that shows those with effectiveToCheckpoint = "latest"; when it fails,
\* the rows of ponder_metadata, the namespaces, the tables and the views
\* are what they were.
C27_PublishAtomic ==
    [][\A k \in Stores :
        Calls("publish", k) =>
            LET nspname == databaseSchemaName(k)
            IN  IF pg'.returned.ok
                THEN /\ \E r \in pg'.ponder_metadata :
                            /\ r.namespace_version = nspname
                            /\ r.is_published
                     /\ \A r \in pg'.ponder_metadata :
                            ~NamespaceLess(r.namespace_version, nspname)
                     /\ \A table \in Tables(pg'.stores[k].schema) :
                            /\ \E t \in pg'.tables :
                                    t.nspname = nspname /\ t.table = table
                            /\ \E v \in pg'.views :
                                    /\ ViewName(v) = <<table, TRUE>>
                                    /\ ViewRows(pg', v)
                                        = PrivateRows(pg', nspname, table)
                            /\ \E v \in pg'.views :
                                    /\ ViewName(v) = <<table, FALSE>>
                                    /\ ViewRows(pg', v)
                                        = {r \in PrivateRows(pg', nspname,
                                                            table) :
                                            r.effectiveToCheckpoint
                                                = "latest"}
                ELSE /\ pg'.ponder_metadata = pg.ponder_metadata
                     /\ pg'.pg_namespace = pg.pg_namespace
                     /\ pg'.tables = pg.tables
                     /\ pg'.views = pg.views
                     /\ pg'.notifications = pg.notifications]_vars

\* C28: a public read of an instance whose publicSchema is not set takes
\* it from ponder_metadata.  With a published row, it reads in the schema
\* public with the schema of the newest published row; with rows none of
\* which is published, in the namespace of the newest row with its schema;
\* with no row it fails.
C28_FirstPublicRead ==
    [][\A k \in Stores :
        (Calls("findUniquePublic", k)
            /\ pg.stores[k].publicSchema = undefined) =>
            LET rows == pg.ponder_metadata
                published == {r \in rows : r.is_published}
                this == pg'.stores[k]
            IN  IF rows = {}
                THEN ~pg'.returned.ok /\ pg'.stores = pg.stores
                ELSE /\ pg'.returned.ok
                     /\ IF published # {}
                        THEN \E r \in published :
                                /\ \A o \in published :
                                        ~NamespaceLess(r.namespace_version,
                                                       o.namespace_version)
                                /\ this.publicNamespace = "public"
                                /\ this.publicSchema = r.schema
                        ELSE \E r \in rows :
                                /\ \A o \in rows :
                                        ~NamespaceLess(r.namespace_version,
                                                       o.namespace_version)
                                /\ this.publicNamespace
                                        = r.namespace_version
                                /\ this.publicSchema = r.schema]_vars

\* The first instance has published the schema "Pet", the second has
\* reloaded "Pet,Person" since, and has read before it heard of the
\* publication: it reads the views with the schema "Pet".
C28_Witness ==
    /\ pg.returned = Returned("findUniquePublic", 2, TRUE)
    /\ [to |-> 2, schema |-> "Pet"] \in pg.notifications
    /\ pg.ponder_metadata
        = {[namespace_version |-> databaseSchemaName(1),
            schema |-> "Pet", is_published |-> TRUE],
           [namespace_version |-> databaseSchemaName(2),
            schema |-> "Pet,Person", is_published |-> FALSE]}
    /\ pg.stores[2].publicNamespace = "public"
    /\ pg.stores[2].publicSchema = "Pet"

\* C29: after a reload({ schema }) that succeeds, the row of the run's
\* namespace in ponder_metadata holds that schema, also when the row was
\* there before, and every <table>_versioned of the schema exists and is
\* empty.
C29_ReloadMetadata ==
    [][\A k \in Stores :
        (Calls("reload", k) /\ pg'.returned.ok
            /\ pg'.returned.schema # undefined) =>
            LET nspname == databaseSchemaName(k)
            IN  /\ \E r \in pg'.ponder_metadata :
                        /\ r.namespace_version = nspname
                        /\ r.schema = pg'.returned.schema
                /\ \A table \in Tables(pg'.returned.schema) :
                        \E t \in pg'.tables :
                            /\ t.nspname = nspname
                            /\ t.table = table
                            /\ t.rows = {}]_vars


(***************************************************************************)
(* Revert and the operations before the safe checkpoint.                   *)
(***************************************************************************)
\* The store that the calls with a checkpoint smaller than c have
\* produced: the store itself while no call with c or more has been made.
BeforeCheckpoint(c) == IF cur < c THEN store ELSE before[c]

SameVersion(r1, r2) ==
    /\ r1.id = r2.id
    /\ r1.effectiveFromCheckpoint = r2.effectiveFromCheckpoint
    /\ r1.v = r2.v

\* C30: revert(cs) on a store built by writes with non-decreasing
\* checkpoints succeeds and leaves no version with effectiveFromCheckpoint
\* >= cs and none closed at a checkpoint >= cs; the versions from before cs
\* are the ones the store had, with their column values; and the store is
\* the one that the calls with a checkpoint smaller than cs had produced.
C30_RevertToPrefix ==
    [][(last = Idle /\ last'.op = "revert") =>
        LET encodedCheckpoint == encodeCheckpoint(last'.c)
        IN  /\ last'.ok
            /\ \A r \in store' :
                /\ TextLess(r.effectiveFromCheckpoint, encodedCheckpoint)
                /\ \/ r.effectiveToCheckpoint = latest
                   \/ TextLess(r.effectiveToCheckpoint, encodedCheckpoint)
            /\ \A r \in store :
                TextLess(r.effectiveFromCheckpoint, encodedCheckpoint) =>
                    \E q \in store' : SameVersion(q, r)
            /\ \A q \in store' : \E r \in store : SameVersion(q, r)
            /\ store' = BeforeCheckpoint(last'.c)]_vars

\* A revert that has removed what was written since its checkpoint and
\* left a current version from before it.
C30_Witness ==
    /\ last.op = "revert"
    /\ last.ok
    /\ last.flag
    /\ before # NoSnapshots
    /\ store = before[last.c]
    /\ \E r \in store :
            /\ r.effectiveToCheckpoint = latest
            /\ TextLess(r.effectiveFromCheckpoint, encodeCheckpoint(last.c))

\* The value of column v after the update data is applied to version r.
Patched(r, data) ==
    IF data.kind = "function" THEN ApplyFn(deserializeRow(r)).v
    ELSE IF "v" \in DOMAIN data.obj THEN data.obj.v ELSE r.v

\* C31: an update at a checkpoint after the effectiveFromCheckpoint of the
\* current version of the id succeeds; it keeps that version's values and
\* effectiveFromCheckpoint, sets its effectiveToCheckpoint to the
\* checkpoint of the call, and adds exactly one version from that
\* checkpoint to "latest" holding the old values overridden by the update
\* data.  Reads at the earlier checkpoints of the old interval return the
\* old values, reads at the checkpoint of the call and at "latest" the new
\* ones.
C31_Branch ==
    last = Idle =>
        \A r \in store :
            /\ r.effectiveToCheckpoint = latest
            /\ TextLess(r.effectiveFromCheckpoint, EncodedCheckpoints[cur])
            => \A data \in UpdateData :
                 \A o \in update(store, cur, r.id, data) :
                   LET old == [r EXCEPT !.effectiveToCheckpoint =
                                            EncodedCheckpoints[cur]]
                       new == Version(r.id, Patched(r, data),
                                      EncodedCheckpoints[cur], latest)
                   IN  /\ o.ok
                       /\ o.tbl = (store \ {r}) \cup {old, new}
                       /\ old \notin store
                       /\ new \notin store
                       /\ \A c \in Checkpoints :
                            /\ TextLeq(r.effectiveFromCheckpoint,
                                       EncodedCheckpoints[c])
                            /\ c < cur
                            => findUnique(o.tbl, r.id, At(c)) =
                                    {<<deserializeRow(r)>>}
                       /\ findUnique(o.tbl, r.id, At(cur)) =
                                    {<<deserializeRow(new)>>}
                       /\ findUnique(o.tbl, r.id, AtLatest) =
                                    {<<deserializeRow(new)>>}

\* An update after the checkpoint of the create has closed the first
\* version at its checkpoint and opened a second one with another value.
C31_Witness ==
    /\ last.op = "update"
    /\ last.ok
    /\ \E r1, r2 \in store :
            /\ r1.id = last.id
            /\ r2.id = last.id
            /\ r1.effectiveToCheckpoint = encodeCheckpoint(cur)
            /\ r2.effectiveFromCheckpoint = encodeCheckpoint(cur)
            /\ r2.effectiveToCheckpoint = latest
            /\ TextLess(r1.effectiveFromCheckpoint, encodeCheckpoint(cur))
            /\ r1.v # r2.v

\* The step has passed tasks to the transport.
DispatchTick == Len(runtime'.calls) > Len(runtime.calls)

\* C32: while clear() is not called, lastRequestTime is the time of the
\* last step that passed tasks to the transport (0 before the first), and
\* such a step is taken only with the queue started and interval ms or
\* more after the one before, and passes at most requestBatchSize tasks;
\* at one request per second these are 1000 ms and one task.
C32_DispatchSpacing ==
    [][LET maxRequestsPerSecond == requestQueue.maxRequestsPerSecond
           sinceLast == runtime.now - requestQueue.lastRequestTime
           sent == Len(runtime'.calls) - Len(runtime.calls)
       IN  /\ requestQueue'.lastRequestTime =
                    IF DispatchTick THEN runtime.now
                    ELSE requestQueue.lastRequestTime
           /\ DispatchTick =>
                /\ requestQueue'.on
                /\ runtime'.now = runtime.now
                /\ sinceLast >= interval(maxRequestsPerSecond)
                /\ sent <= requestBatchSize(maxRequestsPerSecond)
                /\ maxRequestsPerSecond = 1 => sinceLast >= 1000 /\ sent = 1
      ]_vars

\* At one request per second two requests were made at the start and both
\* have been passed to the transport, the second 1000 ms after the first.
C32_Witness ==
    /\ requestQueue.maxRequestsPerSecond = 1
    /\ runtime.calls = <<1, 2>>
    /\ runtime.submitted = 2
    /\ requestQueue.lastRequestTime = StartTime + 1000

\* The step has armed a timer with setTimeout.
TimerArmed ==
    /\ runtime'.timers # <<>>
    /\ runtime'.timers # runtime.timers
    /\ Len(runtime'.timers) >= Len(runtime.timers)

\* C33: whatever the order of request, start, pause, clear and the timer
\* callbacks, at most one timer is armed at a time, one is armed exactly
\* while timing is set, and each timer is armed with a delay of more than
\* 0 and at most interval ms.
C33_OneTimer ==
    /\ [](/\ Len(runtime.timers) <= 1
          /\ requestQueue.timing <=> runtime.timers # <<>>)
    /\ [][TimerArmed =>
            LET delay == runtime'.timers[Len(runtime'.timers)] - runtime.now
            IN  /\ delay > 0
                /\ delay <= interval(requestQueue.maxRequestsPerSecond)
         ]_vars

\* A task waits in the started queue for the armed timer, which comes due
\* in less than interval ms.
C33_Witness ==
    /\ requestQueue.on
    /\ requestQueue.queue # <<>>
    /\ Len(runtime.timers) = 1
    /\ runtime.timers[1] > runtime.now
    /\ runtime.timers[1] - runtime.now
            < interval(requestQueue.maxRequestsPerSecond)
    /\ runtime.calls # <<>>

\* C35: reload() without a schema does nothing on an instance that has no
\* schema; on an instance that has one it succeeds, and every
\* <table>_versioned of that schema is there afterwards, empty, whether or
\* not the schema has enum columns.
C35_ReloadExisting ==
    [][\A k \in Stores :
        (Calls("reload", k) /\ pg'.returned.schema = undefined) =>
            LET nspname == databaseSchemaName(k)
                schema == pg.stores[k].schema
            IN  IF schema = undefined
                THEN /\ pg'.returned.ok
                     /\ pg' = [pg EXCEPT !.returned = pg'.returned,
                                         !.calls = pg'.calls]
                ELSE /\ pg'.returned.ok
                     /\ pg'.stores[k].schema = schema
                     /\ \A table \in Tables(schema) :
                            \E t \in pg'.tables :
                                /\ t.nspname = nspname
                                /\ t.table = table
                                /\ t.rows = {}]_vars

\* C40: in every state reached by reload and publish calls, an instance
\* whose row of ponder_metadata has is_published = true has in the schema
\* public the views <table> and <table>_versioned on its tables, for every
\* table of its schema.
C40_PublishedHasViews ==
    \A k \in Stores :
        \A r \in pg.ponder_metadata :
            (r.namespace_version = databaseSchemaName(k) /\ r.is_published)
                => \A table \in Tables(pg.stores[k].schema) :
                        \A versioned \in BOOLEAN :
                            View(versioned, databaseSchemaName(k), table)
                                \in pg.views

\* C37: a started queue that holds a task has a timer armed, whatever the
\* order of request, pause, start, clear and the timer callbacks; and in a
\* run where the queue is started from some time on for good, with the
\* timers firing when due, every task made with request() is passed to
\* the transport unless a clear() removes it from the queue.
C37_Liveness ==
    /\ []((requestQueue.on /\ requestQueue.queue # <<>>) =>
            (requestQueue.timing /\ runtime.timers # <<>>))
    /\ \A k \in 1 .. MaxLiveRequests :
            (<>[]requestQueue.on) =>
                (Queued(k) ~> (Dispatched(k) \/ Dropped(k)))

\* At one request per second two tasks have been passed to the transport,
\* the second a second or more after the start, and the timer armed at its
\* dispatch has fired on the empty queue.
C37_Witness ==
    /\ requestQueue.maxRequestsPerSecond = 1
    /\ requestQueue.on
    /\ runtime.calls = <<1, 2>>
    /\ requestQueue.queue = <<>>
    /\ requestQueue.lastRequestTime >= StartTime + 1000
    /\ ~requestQueue.timing
    /\ runtime.timers = <<>>

\* C38: in a run where the queue is started from some time on for good and
\* the transport answers every call, the promise of every request()
\* settles; the promise of a task that clear() removes from the queue is
\* rejected by that clear().
C38_EveryPromiseSettles ==
    /\ [][\A k \in 1 .. runtime.submitted :
            (~Dropped(k) /\ Dropped(k)') =>
                runtime'.promises[k].state = "rejected"]_vars
    /\ \A k \in 1 .. MaxLiveRequests :
            (<>[]requestQueue.on) =>
                ((k <= runtime.submitted) ~> Settled(k))

\* Call i had not come to its end when call j was made.
Overlapping(i, j) ==
    /\ i < j
    /\ i \notin rpc.calls[j].after
    /\ rpc.calls[i].pc # "failed"

\* C39: of two calls of a cached method with one chain id, block number
\* and key that overlap, at most one calls the underlying transport and at
\* most one inserts into the cache.
C39_OneFetchPerKey ==
    \A j \in 1 .. Len(rpc.calls) : \A i \in 1 .. Len(rpc.calls) :
        (/\ Overlapping(i, j)
         /\ rpc.calls[i].method \in cachedMethods
         /\ SameEntry(rpc.calls[i], rpc.calls[j])) =>
            /\ ~(rpc.calls[i].fetched /\ rpc.calls[j].fetched)
            /\ ~(/\ rpc.calls[i].fetched /\ rpc.calls[i].pc = "returned"
                 /\ rpc.calls[j].fetched /\ rpc.calls[j].pc = "returned")

(***************************************************************************)
(* Overlapping update calls.                                               *)
(***************************************************************************)
TwoLatest == \E id \in Ids : Cardinality(CurrentOf(store, id)) >= 2

\* Both calls have come to their end, and each has found a latest version
\* from an earlier checkpoint.
BothClosing ==
    /\ \A t \in Transactions :
            /\ tx[t].pc \in {"done", "failed"}
            /\ tx[t].path = "close"
    /\ tx[1].id = tx[2].id

C34_DropsInsidePublish ==
    [][\A k \in Stores :
        Calls("publish", k) =>
            LET nspname == databaseSchemaName(k)
            IN  /\ pg'.returned.ok => pg'.pg_namespace \subseteq {nspname}
                /\ pg'.drops \subseteq pg.drops
                /\ nspname \in pg.pg_namespace
                        => nspname \in pg'.pg_namespace]_vars

====
